---- MODULE Spec2Model ----
(***************************************************************************)
(* A model of PyPDF2 (jeansch fork): the reader (xref loading, lazy        *)
(* dereferencing, page-tree flattening, Standard security handler) and the *)
(* writer (reference sweep, emission).                                     *)
(***************************************************************************)
EXTENDS Integers, Sequences, FiniteSets, TLC

\* ------------------------------------------------------------------------
\* Bounds of the model
\* ------------------------------------------------------------------------

\* longest password tried or set (in bytes)
MaxPwdLen == 2
\* length passwords are padded or truncated to (32 in the PDF algorithms)
PadLen == 1
\* number of page-tree nodes below the page-tree root
MaxNodes == 3
\* number of xref sections (revisions) of a file, and of object ids they list
MaxRevisions == 2
MaxXrefIds == 1
\* number of references the objects of a reader's file hold, and the
\* depth of the writer's sweep the model follows
MaxRefs == 3
MaxDepth == 20

\* ------------------------------------------------------------------------
\* State
\* ------------------------------------------------------------------------
VARIABLES
    \* --- PdfFileReader, one document
    doc,                  \* the file: its /Encrypt parameters and page tree
    decryption_key,       \* self._decryption_key: <<>> (no attribute) or <<key>>
    override_encryption,  \* self._override_encryption
    resolvedObjects,      \* self.resolvedObjects[0]: id -> <<>> or <<object>>
    flattenedPages,       \* self.flattenedPages: <<>> (None) or <<vector>>
    last,                 \* the last call of the public interface and its outcome
    \* --- PdfFileReader.read: the cross-reference sections of a file
    sections,             \* the file's xref sections, the newest first
    startxref,            \* the section the loop of read() reads next
    readDone,             \* the loop of read() has left
    xref,                 \* self.xref: <<generation, id>> -> <<>> or <<offset>>
    xref_objStm,          \* self.xref_objStm: id -> <<>> or <<stmnum, idx>>
    trailer,              \* self.trailer: key -> <<>> or <<value>>
    found,                \* how the last getObject located its object
    xrefIndex,            \* self.xrefIndex
    strict,               \* self.strict
    \* --- PdfFileWriter and the document its pages come from
    heap,                 \* the dictionaries and arrays, by address
    objects,              \* self._objects
    externalReferenceMap, \* externalReferenceMap of write(): id -> 0 or local id
    stack,                \* self.stack
    frames,               \* the calls of _sweepIndirectReferences in progress
    ctl,                  \* where write() is, and the value passed or returned
    stream,               \* the file written
    log,                  \* what the sweep did to each foreign reference
    encryption,           \* self._encrypt (an id) and self._encrypt_key
    \* --- PageObject
    pageObject,           \* the page: its /Resources, /Contents and boxes
    pageOp                \* the last operation on the page and its arguments

readerVars == <<doc, decryption_key, override_encryption, resolvedObjects,
                flattenedPages, last>>
xrefVars == <<sections, startxref, readDone, xref, xref_objStm, trailer, found,
              xrefIndex, strict>>

writerVars == <<heap, objects, externalReferenceMap, stack, frames, ctl, stream,
                log, encryption>>

pageVars == <<pageObject, pageOp>>

vars == <<readerVars, xrefVars, writerVars, pageVars>>

\* no page is operated on in this run
PageIdle == pageObject = <<>> /\ pageOp = <<>>

\* ------------------------------------------------------------------------
\* Byte strings, RC4 and key derivation (utils.py and algorithms.py)
\* ------------------------------------------------------------------------
\* v bound to a name in F: the value is computed once
With(v, F(_)) == CHOOSE out \in {F(x) : x \in {v}} : TRUE

\* A byte string is a plaintext with the set of RC4 key streams currently
\* XOR-ed onto it: RC4 is an XOR stream cipher, so applying a key twice
\* removes it, and applications of different keys commute.
Plain(b) == [base |-> b, keys |-> {}]

RC4_encrypt(key, data) ==
    [data EXCEPT !.keys = (data.keys \ {key}) \cup ({key} \ data.keys)]

\* the fixed padding string of algorithm 3.2, cut to the model's pad length
PadByte == 0
Padding == [i \in 1..PadLen |-> PadByte]

\* (password + padding)[:32]; a byte string that is still encrypted is an
\* opaque block of the pad length.
PadSeq(s) == SubSeq(s \o Padding, 1, PadLen)
Pad(password) ==
    IF password.keys = {} THEN Plain(PadSeq(password.base)) ELSE password

\* the number a (possibly still encrypted) padded password stands for in a key
KeyTag(p) == IF p.keys = {} THEN 0 ELSE 1

\* algorithm 3.2: the document key from the padded password, /O, /P, /ID.
\* Within one document /O, /P and /ID are those of its /Encrypt dictionary.
alg32(password, rev, keylen) ==
    [kind |-> "doc", pwd |-> Pad(password).base, pk |-> KeyTag(Pad(password)),
     rev |-> rev, round |-> 0, id |-> 0, gen |-> 0]

\* algorithm 3.3, step 1-4: the RC4 key made from the owner password
alg33_1(password, rev, keylen) ==
    [kind |-> "own", pwd |-> Pad(password).base, pk |-> KeyTag(Pad(password)),
     rev |-> rev, round |-> 0, id |-> 0, gen |-> 0]

\* key[l] ^ i for every byte l of the key
XorKey(key, i) == [key EXCEPT !.round = i]

\* 19 in `for i in range(19, -1, -1)`
OwnerRounds == 19

\* val = RC4(key ^ i, val) for i = hi, hi-1 .. 0
RECURSIVE RC4Rounds(_, _, _)
RC4Rounds(key, val, i) ==
    IF i < 0 THEN val ELSE RC4Rounds(key, RC4_encrypt(XorKey(key, i), val), i - 1)

\* algorithm 3.3: the /O entry
alg33(owner_pwd, user_pwd, rev, keylen) ==
    IF rev = 2 THEN RC4_encrypt(alg33_1(owner_pwd, rev, keylen), Pad(user_pwd))
    ELSE RC4Rounds(alg33_1(owner_pwd, rev, keylen), Pad(user_pwd), OwnerRounds)

\* the 32 bytes of /U as two halves of 16 bytes
UBase == <<40, 191>>
UHash == <<77>>

\* algorithm 3.4: /U and the key, revision 2
alg34(password) ==
    With(alg32(password, 2, 5), LAMBDA key :
        [U |-> [head |-> RC4_encrypt(key, Plain(UBase)),
                tail |-> RC4_encrypt(key, Plain(UBase))],
         key |-> key])

\* algorithm 3.5: /U and the key, revision 3; the second half is arbitrary
alg35(password, rev, keylen) ==
    With(alg32(password, rev, keylen), LAMBDA key :
        [U |-> [head |-> RC4Rounds(key, Plain(UHash), OwnerRounds),
                tail |-> Plain(<<>>)],
         key |-> key])

\* the per-object key: md5(K + id[:3] + gen[:2])[:min(16, len(K) + 5)]
ObjKey(K, idnum, generation) ==
    [K EXCEPT !.kind = "obj", !.id = idnum % 16777216,
              !.gen = generation % 65536]

\* ------------------------------------------------------------------------
\* The document read by the PdfFileReader
\* ------------------------------------------------------------------------
\* Object ids of the file: the catalog, the page-tree root, the nodes below
\* it, the catalog's /Metadata stream and the /Encrypt dictionary.
RootId == 1
PagesId == 2
NodeIds == (PagesId + 1)..(PagesId + MaxNodes)
TreeIds == {PagesId} \cup NodeIds
MetaId == PagesId + MaxNodes + 1
EncryptId == MetaId + 1
ObjIds == 1..EncryptId

inheritablePageAttributes == {"/Resources", "/MediaBox", "/CropBox", "/Rotate"}
NoAttrs == [a \in inheritablePageAttributes |-> 0]

NoU == [head |-> Plain(<<>>), tail |-> Plain(<<>>)]
NoObj == [type |-> "None", kids |-> <<>>, attrs |-> NoAttrs, count |-> 0,
          str |-> Plain(<<>>), u |-> NoU]

Passwords == UNION {[1..n -> {1, 2}] : n \in 0..MaxPwdLen}

\* the key the file's strings and streams were encrypted with
DocKey == IF doc.rev = 2 THEN alg34(Plain(doc.userPwd)).key
          ELSE alg35(Plain(doc.userPwd), doc.rev, doc.keylen).key

\* a string or stream payload of object id as the file stores it
Stored(id) ==
    IF doc.encrypted THEN RC4_encrypt(ObjKey(DocKey, id, 0), Plain(<<id>>))
    ELSE Plain(<<id>>)

\* the kids of a page-tree node, in /Kids order
RECURSIVE SortedSeq(_)
SortedSeq(S) ==
    IF S = {} THEN <<>>
    ELSE LET m == CHOOSE x \in S : \A y \in S : x <= y
         IN <<m>> \o SortedSeq(S \ {m})
KidsOf(d, n) == SortedSeq({m \in d.nodes \ {PagesId} : d.parent[m] = n})

\* the /Page leaves below node n in depth-first /Kids order
RECURSIVE Leaves(_, _), LeavesOfSeq(_, _)
Leaves(d, n) ==
    IF d.type[n] = "/Page" THEN <<n>> ELSE LeavesOfSeq(d, KidsOf(d, n))
LeavesOfSeq(d, ks) ==
    IF ks = <<>> THEN <<>> ELSE Leaves(d, Head(ks)) \o LeavesOfSeq(d, Tail(ks))

\* the object readObject parses at the xref offset of id
FileObject(id) ==
    IF id = RootId THEN
        [NoObj EXCEPT !.type = "/Catalog", !.str = Stored(id)]
    ELSE IF id = MetaId THEN
        [NoObj EXCEPT !.type = "/Metadata", !.str = Stored(id)]
    ELSE IF id = EncryptId THEN
        [NoObj EXCEPT !.type = "/Encrypt", !.str = doc.O, !.u = doc.U]
    ELSE
        [NoObj EXCEPT !.type = doc.type[id],
                      !.kids = IF doc.type[id] = "/Pages" THEN KidsOf(doc, id)
                               ELSE <<>>,
                      !.attrs = doc.attrs[id],
                      !.count = IF id = PagesId THEN doc.rootCount ELSE 0,
                      !.str = Stored(id)]

\* ids the xref table defines
Defined(id) ==
    /\ id \in ObjIds
    /\ id = EncryptId => doc.encrypted
    /\ id \in TreeIds => id \in doc.nodes

\* ------------------------------------------------------------------------
\* PdfFileReader: dereferencing
\* ------------------------------------------------------------------------
\* the reader's fields, threaded through the calls of one operation
RS == [key |-> decryption_key, override |-> override_encryption,
       resolved |-> resolvedObjects, flat |-> flattenedPages]

Ret(st, obj) == [st |-> st, val |-> obj, raised |-> FALSE]
Raise(st) == [st |-> st, val |-> NoObj, raised |-> TRUE]

\* every string and stream payload of the object, RC4-ed with the key
decryptObject(obj, key) ==
    [obj EXCEPT !.str = RC4_encrypt(key, obj.str),
                !.u = [head |-> RC4_encrypt(key, obj.u.head),
                       tail |-> RC4_encrypt(key, obj.u.tail)]]

cacheIndirectObject(st, idnum, obj) ==
    [st EXCEPT !.resolved[idnum] = <<obj>>]

\* the decryption branch of getObject
DecryptRead(st, idnum, retval) ==
    decryptObject(retval, ObjKey(st.key[1], idnum, 0))

getObject(st, idnum) ==
    IF st.resolved[idnum] # <<>> THEN Ret(st, st.resolved[idnum][1])
    ELSE IF ~Defined(idnum) THEN Ret(st, NoObj)
    ELSE With(FileObject(idnum), LAMBDA retval :
         IF ~st.override /\ doc.encrypted THEN
             IF st.key = <<>> THEN Raise(st)
             ELSE With(DecryptRead(st, idnum, retval), LAMBDA dec :
                  Ret(cacheIndirectObject(st, idnum, dec), dec))
         ELSE Ret(cacheIndirectObject(st, idnum, retval), retval))

\* ------------------------------------------------------------------------
\* PdfFileReader: page-tree flattening
\* ------------------------------------------------------------------------
\* the inherit dictionary after a /Pages node has written its attributes
Overlay(inherit, pages) ==
    [a \in inheritablePageAttributes |->
        IF pages.attrs[a] # 0 THEN pages.attrs[a] ELSE inherit[a]]

\* the page dictionary after the inherited values it lacks were stored in it
FillPage(inherit, pages) ==
    [pages EXCEPT !.attrs = [a \in inheritablePageAttributes |->
        IF pages.attrs[a] = 0 THEN inherit[a] ELSE pages.attrs[a]]]

\* the inherit dictionary a node's caller goes on with after the call:
\* the callee was handed the caller's dictionary itself, not a copy
InheritAfterKid(callerInherit, calleeInherit) == calleeInherit

PageObject(indirectRef, pages) == [indirectRef |-> indirectRef, obj |-> pages]

FlatRet(st, inherit, raised) ==
    [st |-> st, inherit |-> inherit, raised |-> raised]

\* the /Page branch putting the page first instead of last
flattenPagePrepend(st, inherit, id, pages) ==
    With(FillPage(inherit, pages), LAMBDA filled :
        FlatRet([st EXCEPT !.resolved[id] = <<filled>>,
                           !.flat = << <<PageObject(id, filled)>> \o
                                       st.flat[1] >>],
                inherit, FALSE))

\* the /Page branch of _flatten: fill, wrap in a PageObject, append
flattenPage(st, inherit, id, pages) ==
    With(FillPage(inherit, pages), LAMBDA filled :
        FlatRet([st EXCEPT !.resolved[id] = <<filled>>,
                           !.flat = <<st.flat[1] \o
                                      <<PageObject(id, filled)>> >>],
                inherit, FALSE))

\* _flatten(pages, inherit, indirectRef) with pages the resolved object of id;
\* yields the reader's fields, the inherit dictionary and whether it raised
RECURSIVE flatten(_, _, _), flattenKids(_, _, _, _)
flatten(st, inherit, id) ==
    With(st.resolved[id][1], LAMBDA pages :
        IF pages.type = "/Pages" THEN
            flattenKids(st, Overlay(inherit, pages), pages.kids, 1)
        ELSE IF pages.type = "/Page" THEN flattenPage(st, inherit, id, pages)
        ELSE FlatRet(st, inherit, FALSE))
flattenKids(st, inherit, kids, i) ==
    IF i > Len(kids) THEN FlatRet(st, inherit, FALSE)
    ELSE With(getObject(st, kids[i]), LAMBDA r :
         IF r.raised THEN FlatRet(r.st, inherit, TRUE)
         ELSE With(flatten(r.st, inherit, kids[i]), LAMBDA f :
              IF f.raised THEN f
              ELSE flattenKids(f.st, InheritAfterKid(inherit, f.inherit),
                               kids, i + 1)))

\* _flatten() as getPage and getNumPages call it
flattenTop(st) ==
    With(getObject([st EXCEPT !.flat = << <<>> >>], RootId), LAMBDA catalog :
        IF catalog.raised THEN Raise(catalog.st)
        ELSE With(getObject(catalog.st, PagesId), LAMBDA pages :
             IF pages.raised THEN Raise(pages.st)
             ELSE With(flatten(pages.st, NoAttrs, PagesId), LAMBDA f :
                  [st |-> f.st, val |-> NoObj, raised |-> f.raised])))

\* if self.flattenedPages is None: self._flatten()
ensureFlat(st) == IF st.flat = <<>> THEN flattenTop(st) ELSE Ret(st, NoObj)

\* ------------------------------------------------------------------------
\* PdfFileReader: the public operations
\* ------------------------------------------------------------------------
isEncrypted == doc.encrypted

\* outcome of an operation: the fields, a number, an object, raised or not
Out(st, code, obj, raised) ==
    [st |-> st, code |-> code, obj |-> obj, raised |-> raised]

\* the try statement without its finally clause
FinallyNot(o) == o

\* try: ... finally: self._override_encryption = False
Finally(o) == [o EXCEPT !.st.override = FALSE]

\* the page count getNumPages yields once the page vector exists
NumPagesOf(flat) == Len(flat)

getNumPages(st) ==
    IF isEncrypted THEN
        With(getObject([st EXCEPT !.override = TRUE], RootId), LAMBDA root :
        With(getObject(root.st, PagesId), LAMBDA pages :
            Finally(Out(pages.st, pages.val.count, NoObj, FALSE))))
    ELSE
        With(ensureFlat(st), LAMBDA f :
            IF f.raised THEN Out(f.st, 0, NoObj, TRUE)
            ELSE Out(f.st, NumPagesOf(f.st.flat[1]), NoObj, FALSE))

\* self.flattenedPages[pageNumber]
PageAt(flat, pageNumber) == flat[pageNumber + 1]

getPage(st, pageNumber) ==
    With(ensureFlat(st), LAMBDA f :
        IF f.raised THEN Out(f.st, 0, NoObj, TRUE)
        ELSE IF pageNumber >= Len(f.st.flat[1]) THEN Out(f.st, 0, NoObj, TRUE)
        ELSE With(PageAt(f.st.flat[1], pageNumber), LAMBDA pg :
             Out(f.st, pg.indirectRef, pg.obj, FALSE)))

getXmpMetadata(st) ==
    With(getObject([st EXCEPT !.override = TRUE], RootId), LAMBDA root :
    With(getObject(root.st, MetaId), LAMBDA meta :
        Finally(Out(meta.st, 0, meta.val, FALSE))))

\* U == real_U, for revision >= 3 on the first 16 bytes
SameU(rev, U, real_U) ==
    IF rev = 2 THEN U = real_U ELSE U.head = real_U.head

authenticateUserPassword(encryptDict, password) ==
    With(IF doc.rev = 2 THEN alg34(password)
         ELSE alg35(password, doc.rev, doc.keylen), LAMBDA a :
        [ok |-> SameU(doc.rev, a.U, encryptDict.u), key |-> a.key])

\* the user password the candidate owner password recovers from /O
OwnerUserpass(encryptDict, password) ==
    With(alg33_1(password, doc.rev, IF doc.rev = 2 THEN 5 ELSE doc.keylen),
         LAMBDA key :
            IF doc.rev = 2 THEN RC4_encrypt(key, encryptDict.str)
            ELSE RC4Rounds(key, encryptDict.str, OwnerRounds))

\* the owner branch of _decrypt
decryptOwner(st, encryptDict, password) ==
    With(authenticateUserPassword(encryptDict,
                                  OwnerUserpass(encryptDict, password)),
         LAMBDA owner :
            IF owner.ok
            THEN Out([st EXCEPT !.key = <<owner.key>>], 2, NoObj, FALSE)
            ELSE Out(st, 0, NoObj, FALSE))

\* _decrypt trying the owner password before the user password
decryptOwnerFirst(st, encryptDict, password) ==
    With(authenticateUserPassword(encryptDict,
                                  OwnerUserpass(encryptDict, password)),
         LAMBDA owner :
            IF owner.ok
            THEN Out([st EXCEPT !.key = <<owner.key>>], 2, NoObj, FALSE)
            ELSE With(authenticateUserPassword(encryptDict, password),
                      LAMBDA user :
                 IF user.ok
                 THEN Out([st EXCEPT !.key = <<user.key>>], 1, NoObj, FALSE)
                 ELSE Out(st, 0, NoObj, FALSE)))

\* _decrypt(password) once the /Encrypt dictionary is at hand
decryptWith(st, encryptDict, password) ==
    IF doc.filter # "/Standard" \/ doc.V \notin {1, 2} THEN
        Out(st, 0, NoObj, TRUE)
    ELSE With(authenticateUserPassword(encryptDict, password), LAMBDA user :
         IF user.ok THEN Out([st EXCEPT !.key = <<user.key>>], 1, NoObj, FALSE)
         ELSE decryptOwner(st, encryptDict, password))

decrypt(st, password) ==
    IF ~isEncrypted THEN Finally(Out([st EXCEPT !.override = TRUE], 0, NoObj, TRUE))
    ELSE With(getObject([st EXCEPT !.override = TRUE], EncryptId),
              LAMBDA enc :
         IF enc.raised THEN Finally(Out(enc.st, 0, NoObj, TRUE))
         ELSE Finally(decryptWith(enc.st, enc.val, password)))

\* ------------------------------------------------------------------------
\* PdfFileWriter.encrypt: the /Encrypt parameters of a file it produces
\* ------------------------------------------------------------------------
encryptParams(user_pwd, owner_pwd, V, rev, keylen) ==
    With(IF rev = 2 THEN alg34(Plain(user_pwd))
         ELSE alg35(Plain(user_pwd), rev, keylen), LAMBDA a :
        [filter |-> "/Standard", V |-> V, rev |-> rev, keylen |-> keylen,
         O |-> alg33(Plain(owner_pwd), Plain(user_pwd), rev, keylen),
         U |-> a.U, key |-> a.key])

encrypt(user_pwd, owner_pwd, use_128bit) ==
    IF use_128bit THEN encryptParams(user_pwd, owner_pwd, 2, 3, 16)
    ELSE encryptParams(user_pwd, owner_pwd, 1, 2, 5)

\* ------------------------------------------------------------------------
\* PdfFileReader.read: the cross-reference sections and their trailers
\* ------------------------------------------------------------------------
XIds == 1..MaxXrefIds
Gens == {0, 1}
TrailerKeys == {"/Root", "/Size"}
\* the keys read() takes from the dictionary of a cross-reference stream
trailerKeys == {"/Root", "/Encrypt", "/Info", "/ID"}

\* One entry of a section: none for the id, "n" a 20-byte line of a table
\* or a type-1 entry of a stream (generation, offset), "c" a type-2 entry
\* (object stream, index), "z" a type-0 entry of a stream.
XEntry(t, gen, a, b) == [t |-> t, gen |-> gen, a |-> a, b |-> b]
NoEntry == XEntry("none", 0, 0, 0)

\* what the section of revision r says: byte offsets, object streams and
\* trailer values of different revisions are different
OffsetAt(r, num) == 10 * r + num
ObjStmAt(r) == 100 + r
EntryAt(r, num, shape) ==
    IF shape = "n0" THEN XEntry("n", 0, OffsetAt(r, num), 0)
    ELSE IF shape = "n1" THEN XEntry("n", 1, OffsetAt(r, num), 0)
    ELSE IF shape = "c" THEN XEntry("c", 0, ObjStmAt(r), num - 1)
    ELSE IF shape = "z" THEN XEntry("z", 0, 0, 0)
    ELSE NoEntry

\* the shapes of a section: a classical table lists an id with a generation
\* (in use or free, the flag is not read); a stream lists it free, in use at
\* an offset or compressed; /Root may be missing from a trailer
SectionShapes ==
    {[kind |-> "table", ids |-> e, root |-> b] :
        e \in [XIds -> {"none", "n0", "n1"}], b \in BOOLEAN}
    \cup
    {[kind |-> "stream", ids |-> e, root |-> b] :
        e \in [XIds -> {"none", "z", "n0", "c"}], b \in BOOLEAN}

\* the section of revision r (1 the newest) of n with the given shape
SectionAt(shape, r, n) ==
    [kind |-> shape.kind,
     entries |-> [num \in XIds |-> EntryAt(r, num, shape.ids[num])],
     trailer |-> [k \in TrailerKeys |->
                    IF k = "/Root" /\ ~shape.root THEN <<>> ELSE <<r>>],
     prev |-> IF r < n THEN r + 1 ELSE 0]

XS == [xref |-> xref, xref_objStm |-> xref_objStm, trailer |-> trailer]

\* lines 555-562: an entry of a table
setTableEntryOverwrite(x, generation, num, offset) ==
    [x EXCEPT !.xref[<<generation, num>>] = <<offset>>]

setTableEntry(x, generation, num, offset) ==
    IF x.xref[<<generation, num>>] # <<>> THEN x
    ELSE [x EXCEPT !.xref[<<generation, num>>] = <<offset>>]

\* lines 617-626: an entry of a cross-reference stream
setStreamEntry(x, num, e) ==
    IF e.t = "z" THEN x
    ELSE IF e.t = "n" THEN
        IF x.xref[<<e.gen, num>>] = <<>>
        THEN [x EXCEPT !.xref[<<e.gen, num>>] = <<e.a>>] ELSE x
    ELSE IF x.xref_objStm[num] = <<>>
        THEN [x EXCEPT !.xref_objStm[num] = <<e.a, e.b>>] ELSE x

\* self.trailer.setdefault(key, value)
setdefault(x, key, value) ==
    IF x.trailer[key] # <<>> THEN x ELSE [x EXCEPT !.trailer[key] = value]

\* the entries of a section from id num on
RECURSIVE readEntries(_, _, _)
readEntries(x, sec, num) ==
    IF num > MaxXrefIds THEN x
    ELSE IF sec.entries[num].t = "none" THEN readEntries(x, sec, num + 1)
    ELSE IF sec.kind = "table" THEN
        readEntries(setTableEntry(x, sec.entries[num].gen, num,
                                  sec.entries[num].a), sec, num + 1)
    ELSE readEntries(setStreamEntry(x, num, sec.entries[num]), sec, num + 1)

\* the trailer of a table: every key; of a stream: the keys of trailerKeys
RECURSIVE readTrailer(_, _, _)
readTrailer(x, sec, keys) ==
    IF keys = {} THEN x
    ELSE With(CHOOSE k \in keys : TRUE, LAMBDA key :
         IF sec.trailer[key] = <<>> \/
            (sec.kind = "stream" /\ key \notin trailerKeys)
         THEN readTrailer(x, sec, keys \ {key})
         ELSE readTrailer(setdefault(x, key, sec.trailer[key]), sec,
                          keys \ {key}))

\* one round of the loop of read(): the section at startxref
readSection(x, sec) == readTrailer(readEntries(x, sec, 1), sec, TrailerKeys)

\* lines 360-391 of getObject: where the object of a reference is taken from
Located(via, a, b) == [via |-> via, a |-> a, b |-> b]
locate(x, generation, idnum) ==
    IF generation = 0 /\ x.xref_objStm[idnum] # <<>> THEN
        Located("objStm", x.xref_objStm[idnum][1], x.xref_objStm[idnum][2])
    ELSE IF x.xref[<<generation, idnum>>] = <<>> THEN Located("None", 0, 0)
    ELSE Located("offset", x.xref[<<generation, idnum>>][1], 0)

NoFound == [op |-> "none", generation |-> 0, idnum |-> 0,
            res |-> Located("None", 0, 0)]

\* a reader that reads no cross-reference sections in the steps modelled
XrefIdle ==
    /\ sections = <<>>
    /\ startxref = 0
    /\ readDone = TRUE
    /\ xref = [k \in Gens \X XIds |-> <<>>]
    /\ xref_objStm = [num \in XIds |-> <<>>]
    /\ trailer = [k \in TrailerKeys |-> <<>>]
    /\ found = NoFound
    /\ xrefIndex = 0
    /\ strict = FALSE

\* ------------------------------------------------------------------------
\* PdfFileWriter: objects, pages and the reference sweep of write()
\* ------------------------------------------------------------------------
\* A value: a number, name or string ("lit"), an indirect reference of
\* generation 0 to object id of the writer ("w") or of the reader ("r"),
\* None, a stream held directly ("stream"), or a dictionary or array at
\* hand ("obj", the address of the object in the heap).
Val(k, pdf, id) == [k |-> k, pdf |-> pdf, id |-> id]
NumberObject(n) == Val("lit", "", n)
IndirectObject(idnum, pdf) == Val("ref", pdf, idnum)
None == Val("none", "", 0)
StreamObject == Val("stream", "", 0)
DictionaryObject(addr) == Val("obj", "", addr)

\* The reader's file: its page-tree root, two pages, two other objects, and
\* an id that pages may refer to although the xref does not define it.
ReaderPagesId == 1
ReaderPageIds == {2, 3}
ReaderObjIds == {4, 5}
UndefinedId == 6
ForeignIds == 1..UndefinedId
\* the page that holds its content stream directly
StreamPageId == 3

\* Addresses of the heap: the reader's cached objects by id, the PageObject
\* the reader made of a page, the writer's own dictionaries.
PageAddr(pid) == 10 + pid
PagesAddr == 21
InfoAddr == 22
RootAddr == 23
Addrs == (1..(UndefinedId - 1)) \cup {PageAddr(p) : p \in ReaderPageIds}
         \cup {PagesAddr, InfoAddr, RootAddr}

\* the references an object of the reader holds besides /Parent: at most
\* MaxRefs over the whole file, from a page or the other objects
EdgeSources == {2} \cup ReaderObjIds
EdgeTargets == ReaderPageIds \cup ReaderObjIds \cup {UndefinedId}
Edges == EdgeSources \X EdgeTargets
NoEdge == <<0, 0>>
EdgeSets ==
    {{f[i] : i \in 1..MaxRefs} \ {NoEdge} :
        f \in [1..MaxRefs -> Edges \cup {NoEdge}]}

RefsOf(E, n) == SortedSeq({e[2] : e \in {x \in E : x[1] = n}})
\* the values of the dictionary of object n of the reader's file
ReaderFields(E, n) ==
    IF n = ReaderPagesId THEN
        [i \in 1..Cardinality(ReaderPageIds) |->
            IndirectObject(SortedSeq(ReaderPageIds)[i], "r")]
    ELSE (IF n \in ReaderPageIds THEN <<IndirectObject(ReaderPagesId, "r")>>
          ELSE <<>>)
         \o [i \in 1..Len(RefsOf(E, n)) |-> IndirectObject(RefsOf(E, n)[i], "r")]
         \o (IF n = StreamPageId THEN <<StreamObject>> ELSE <<>>)

\* the heap before any page is added: PdfFileWriter.__init__ and the reader
HeapOf(E) ==
    [a \in Addrs |->
        IF a = PagesAddr THEN <<NumberObject(0)>>
        ELSE IF a = InfoAddr THEN <<NumberObject(0)>>
        ELSE IF a = RootAddr THEN <<IndirectObject(1, "w")>>
        ELSE IF a > 10 THEN ReaderFields(E, a - 10)
        ELSE ReaderFields(E, a)]

\* obj.indirectRef of a PageObject (0: none, or not a PageObject)
indirectRef(obj) ==
    IF obj.k = "obj" /\ obj.id > 10 /\ obj.id < PagesAddr THEN obj.id - 10 ELSE 0

NoLog == [copies |-> [f \in ForeignIds |-> 0], refs |-> [f \in ForeignIds |-> 0],
          ids |-> [f \in ForeignIds |-> {}], edges |-> {}]

WS == [heap |-> heap, objects |-> objects, externMap |-> externalReferenceMap,
       stack |-> stack, frames |-> frames, ctl |-> ctl, log |-> log,
       encrypt |-> encryption]

\* the writer has no attribute _encrypt
NoEncryption == [idnum |-> 0, key |-> <<>>, keylen |-> 0]

\* __init__: the page-tree root, the info dictionary, the catalog
WriterObjects ==
    <<DictionaryObject(PagesAddr), DictionaryObject(InfoAddr),
      DictionaryObject(RootAddr)>>
pagesRef == IndirectObject(1, "w")
rootRef == IndirectObject(3, "w")

\* l.insert(index, p) with the page put last, whatever the index
InsertAtEnd(kids, index, page) == Append(kids, page)

\* action(pages["/Kids"], page) of insertPage: l.insert(index, p); an
\* index below 0 counts from the end, an index out of range is the nearest
\* end
InsertAt(kids, index, page) ==
    IF index >= Len(kids) THEN Append(kids, page)
    ELSE IF index + Len(kids) < 0 THEN <<page>> \o kids
    ELSE IF index < 0 THEN
        SubSeq(kids, 1, index + Len(kids)) \o <<page>> \o
        SubSeq(kids, index + Len(kids) + 1, Len(kids))
    ELSE SubSeq(kids, 1, index) \o <<page>> \o SubSeq(kids, index + 1, Len(kids))

\* /Count and /Kids of the page-tree root
Count(w) == w.heap[PagesAddr][1].id
Kids(w) == Tail(w.heap[PagesAddr])

\* _addPage(page, action) with action the insertion at index
addPageAt(w, pid, index) ==
    [w EXCEPT !.heap[PageAddr(pid)][1] = pagesRef,
              !.objects = Append(@, DictionaryObject(PageAddr(pid))),
              !.heap[PagesAddr] =
                  <<NumberObject(Count(w) + 1)>> \o
                  InsertAt(Kids(w), index,
                           IndirectObject(Len(w.objects) + 1, "w"))]

\* lines 226-233 of write(): the pages of the object vector seed the map
RECURSIVE seedNothing(_, _, _)
seedNothing(map, objs, objIndex) == map

RECURSIVE seed(_, _, _)
seed(map, objs, objIndex) ==
    IF objIndex >= Len(objs) THEN map
    ELSE IF indirectRef(objs[objIndex + 1]) # 0 THEN
        seed([map EXCEPT ![indirectRef(objs[objIndex + 1])] = objIndex + 1],
             objs, objIndex + 1)
    ELSE seed(map, objs, objIndex + 1)

\* the reader's getObject as the sweep uses it: the cached dictionary, or
\* None for an id the xref does not define
foreignGetObject(idnum) ==
    IF idnum = UndefinedId THEN None ELSE DictionaryObject(idnum)

\* the writer's getObject
writerGetObject(w, ido) == w.objects[ido.id]

\* The recursion of _sweepIndirectReferences as a machine: ctl says whether
\* a call with the value arg is being entered or has returned arg; frames
\* holds the calls that wait for a nested call.
Frame(kind, a, i) == [kind |-> kind, a |-> a, i |-> i]
Call(w, data) == [w EXCEPT !.ctl.mode = "call", !.ctl.arg = data]
Return(w, data) == [w EXCEPT !.ctl.mode = "return", !.ctl.arg = data]
Push(w, f) == [w EXCEPT !.frames = Append(@, f)]
Pop(w) == [w EXCEPT !.frames = SubSeq(@, 1, Len(@) - 1)]

\* a local reference never taken as being on the stack
neverOnStack(stk, idnum) == FALSE

\* data.idnum in self.stack
onStack(stk, idnum) == \E j \in 1..Len(stk) : stk[j] = idnum

\* a dictionary or an array: its first value, if any
sweepContainer(w, data) ==
    IF w.heap[data.id] = <<>> THEN Return(w, data)
    ELSE Call(Push(w, Frame("iter", data.id, 1)), w.heap[data.id][1])

\* a reference to an object of the writer
sweepLocal(w, data) ==
    IF onStack(w.stack, data.id) THEN Return(w, data)
    ELSE Call(Push([w EXCEPT !.stack = Append(@, data.id)],
                   Frame("local", data.id, 0)),
              writerGetObject(w, data))

\* a reference to an object of another document
sweepForeign(w, data) ==
    IF w.externMap[data.id] # 0 THEN
        Return([w EXCEPT !.log.refs[data.id] = @ + 1,
                         !.log.ids[data.id] = @ \cup {w.externMap[data.id]}],
               IndirectObject(w.externMap[data.id], "w"))
    ELSE
        Call(Push([w EXCEPT !.objects = Append(@, None),
                            !.externMap[data.id] = Len(w.objects) + 1,
                            !.log.copies[data.id] = @ + 1],
                  Frame("foreign", Len(w.objects) + 1, data.id)),
             foreignGetObject(data.id))

\* _sweepIndirectReferences(externMap, data) is entered
sweepCall(w, data) ==
    IF data.k = "obj" THEN sweepContainer(w, data)
    ELSE IF data.k = "ref" THEN
        IF data.pdf = "w" THEN sweepLocal(w, data) ELSE sweepForeign(w, data)
    ELSE Return(w, data)

\* data[key] = value, a stream having been made an object of the writer
storeValue(w, f, value) ==
    IF value.k = "stream" THEN
        [w EXCEPT !.objects = Append(@, value),
                  !.heap[f.a][f.i] = IndirectObject(Len(w.objects) + 1, "w")]
    ELSE [w EXCEPT !.heap[f.a][f.i] = value]

\* the next value of the dictionary or array, or its end
nextValue(w, f) ==
    IF f.i < Len(w.heap[f.a]) THEN
        Call([w EXCEPT !.frames[Len(w.frames)].i = f.i + 1],
             w.heap[f.a][f.i + 1])
    ELSE Return(Pop(w), DictionaryObject(f.a))

\* a nested call has returned value to the call f
sweepReturn(w, f, value) ==
    IF f.kind = "iter" THEN nextValue(storeValue(w, f, value), f)
    ELSE IF f.kind = "local" THEN
        Return([Pop(w) EXCEPT !.stack = SubSeq(@, 1, Len(@) - 1)],
               IndirectObject(f.a, "w"))
    ELSE
        Return([Pop(w) EXCEPT !.objects[f.a] = value,
                              !.log.refs[f.i] = @ + 1,
                              !.log.ids[f.i] = @ \cup {f.a}],
               IndirectObject(f.a, "w"))

sweepStep(w) ==
    IF w.ctl.mode = "call" THEN sweepCall(w, w.ctl.arg)
    ELSE sweepReturn(w, w.frames[Len(w.frames)], w.ctl.arg)

NoCtl == [phase |-> "build", mode |-> "return", arg |-> None]

\* a writer that does nothing in the steps modelled
WriterIdle ==
    /\ heap = [a \in Addrs |-> <<>>]
    /\ objects = <<>>
    /\ externalReferenceMap = [f \in ForeignIds |-> 0]
    /\ stack = <<>>
    /\ frames = <<>>
    /\ ctl = NoCtl
    /\ stream = <<>>
    /\ encryption = NoEncryption
    /\ log = NoLog

\* ------------------------------------------------------------------------
\* Reader: initial states and actions
\* ------------------------------------------------------------------------
NoLast == [op |-> "none", pwd |-> <<>>, num |-> 0, code |-> 0, obj |-> NoObj,
           raised |-> FALSE, keyBefore |-> <<>>]

\* a file with the given /Encrypt parameters and page tree
Document(enc, e, user, owner, nodes, type, parent, attrs, rootCount) ==
    [encrypted |-> enc, filter |-> e.filter, V |-> e.V, rev |-> e.rev,
     keylen |-> e.keylen, O |-> e.O, U |-> e.U, userPwd |-> user,
     ownerPwd |-> owner, nodes |-> nodes, type |-> type, parent |-> parent, attrs |-> attrs,
     rootCount |-> rootCount]

\* PdfFileReader.__init__
ReaderInit ==
    /\ decryption_key = <<>>
    /\ override_encryption = FALSE
    /\ resolvedObjects = [id \in ObjIds |-> <<>>]
    /\ flattenedPages = <<>>
    /\ last = NoLast

\* page trees: every node below the root hangs under an earlier /Pages node
TreeTypes == {t \in [TreeIds -> {"/Pages", "/Page"}] : t[PagesId] = "/Pages"}
TreeParents(t) ==
    {p \in [TreeIds -> {0} \cup TreeIds] :
        /\ p[PagesId] = 0
        /\ \A n \in NodeIds : p[n] \in TreeIds /\ p[n] < n /\ t[p[n]] = "/Pages"}
\* a node that defines an attribute gives it a value of its own (its id)
TreeAttrs ==
    {[n \in TreeIds |->
        [NoAttrs EXCEPT !["/Rotate"] = IF n \in R THEN n ELSE 0,
                        !["/MediaBox"] = IF n \in M THEN n ELSE 0]] :
        R \in SUBSET TreeIds, M \in SUBSET {PagesId}}

FlatType == [n \in TreeIds |-> IF n = PagesId THEN "/Pages" ELSE "/Page"]
FlatParent == [n \in TreeIds |-> IF n = PagesId THEN 0 ELSE PagesId]
FlatAttrs == [n \in TreeIds |-> NoAttrs]
\* the page tree of a one-page file
OnePage == {PagesId, PagesId + 1}

\* files encrypted with every pair of passwords, revision 2 or 3, whose
\* second half of /U (arbitrary in revision 3) is what any producer wrote
InitCrypt ==
    /\ \E user \in Passwords, owner \in Passwords, use_128bit \in BOOLEAN,
          tail \in {<<>>, <<1>>} :
          /\ (~use_128bit => tail = <<>>)
          /\ doc = Document(TRUE,
                [encrypt(user, owner, use_128bit) EXCEPT !.U.tail =
                    IF use_128bit THEN Plain(tail) ELSE @],
                user, owner, OnePage, FlatType, FlatParent, FlatAttrs, 1)
    /\ ReaderInit
    /\ XrefIdle
    /\ PageIdle
    /\ WriterIdle

\* one-page files encrypted with revision 2 or 3, the owner password being
\* the user password or another one
InitEncrypted ==
    /\ \E owner \in {<<1>>, <<2>>}, use_128bit \in BOOLEAN :
          doc = Document(TRUE, encrypt(<<1>>, owner, use_128bit), <<1>>, owner,
                         OnePage, FlatType, FlatParent, FlatAttrs, 1)
    /\ ReaderInit
    /\ XrefIdle
    /\ PageIdle
    /\ WriterIdle

\* files in the clear with every page tree and every choice of the nodes
\* that define /Rotate, the root defining /MediaBox or not
InitTrees ==
    /\ \E t \in TreeTypes, a \in TreeAttrs :
          \E p \in TreeParents(t) :
             doc = Document(FALSE, encrypt(<<1>>, <<2>>, TRUE), <<1>>, <<2>>,
                            TreeIds, t, p, a, 0)
    /\ ReaderInit
    /\ XrefIdle
    /\ PageIdle
    /\ WriterIdle

\* the number of /Page leaves of a tree
LeafCount(t, p) ==
    Len(Leaves([nodes |-> TreeIds, type |-> t, parent |-> p], PagesId))

\* files with every page tree, in the clear or encrypted; the /Count of an
\* encrypted file's root is what the file says
InitPages ==
    /\ \E enc \in BOOLEAN, t \in TreeTypes, extra \in {0, 1} :
          \E p \in TreeParents(t) :
             /\ ~enc => extra = 0
             /\ doc = Document(enc, encrypt(<<1>>, <<2>>, TRUE), <<1>>, <<2>>,
                               TreeIds, t, p, FlatAttrs,
                               LeafCount(t, p) + extra)
    /\ ReaderInit
    /\ XrefIdle
    /\ PageIdle
    /\ WriterIdle

\* the reader's fields after an operation, and the record of the call
Apply(op, pwd, num, o) ==
    /\ decryption_key' = o.st.key
    /\ override_encryption' = o.st.override
    /\ resolvedObjects' = o.st.resolved
    /\ flattenedPages' = o.st.flat
    /\ last' = [op |-> op, pwd |-> pwd, num |-> num, code |-> o.code,
                obj |-> o.obj, raised |-> o.raised,
                keyBefore |-> decryption_key]
    /\ UNCHANGED <<doc, xrefVars, writerVars, pageVars>>

Decrypt(password) == Apply("decrypt", password, 0, decrypt(RS, Plain(password)))

GetNumPages == Apply("getNumPages", <<>>, 0, getNumPages(RS))

GetPage(pageNumber) ==
    Apply("getPage", <<>>, pageNumber, getPage(RS, pageNumber))

GetXmpMetadata == Apply("getXmpMetadata", <<>>, 0, getXmpMetadata(RS))

\* getObject called by the user of the reader
getObjectOp(st, idnum) ==
    With(getObject(st, idnum), LAMBDA r : Out(r.st, 0, r.val, r.raised))

GetObject(idnum) == Apply("getObject", <<>>, idnum, getObjectOp(RS, idnum))

ReaderNext ==
    \/ \E password \in Passwords : Decrypt(password)
    \/ GetNumPages
    \/ \E pageNumber \in 0..MaxNodes : GetPage(pageNumber)
    \/ GetXmpMetadata
    \/ \E idnum \in ObjIds : GetObject(idnum)

FlattenNext ==
    \/ GetNumPages
    \/ \E pageNumber \in 0..MaxNodes : GetPage(pageNumber)

PagesNext ==
    \/ \E password \in {doc.userPwd, doc.ownerPwd, <<>>} : Decrypt(password)
    \/ GetNumPages
    \/ \E pageNumber \in 0..MaxNodes : GetPage(pageNumber)

DecryptNext == \E password \in Passwords : Decrypt(password)

SpecDecrypt == InitCrypt /\ [][DecryptNext]_vars
SpecReader == InitEncrypted /\ [][ReaderNext]_vars
SpecFlatten == InitTrees /\ [][FlattenNext]_vars
SpecPages == InitPages /\ [][PagesNext]_vars

\* ------------------------------------------------------------------------
\* read(): initial states and actions
\* ------------------------------------------------------------------------
\* a document in the clear with one page
PlainDocument ==
    Document(FALSE, encrypt(<<>>, <<>>, FALSE), <<>>, <<>>, OnePage, FlatType,
             FlatParent, FlatAttrs, 1)

\* read() has found startxref and emptied xref, xref_objStm and trailer;
\* the file has 1 to MaxRevisions sections chained by /Prev
InitXref ==
    /\ doc = PlainDocument
    /\ ReaderInit
    /\ \E n \in 1..MaxRevisions :
          \E f \in [1..n -> SectionShapes] :
             sections = [r \in 1..n |-> SectionAt(f[r], r, n)]
    /\ startxref = 1
    /\ readDone = FALSE
    /\ xref = [k \in Gens \X XIds |-> <<>>]
    /\ xref_objStm = [num \in XIds |-> <<>>]
    /\ trailer = [k \in TrailerKeys |-> <<>>]
    /\ found = NoFound
    /\ xrefIndex = 0
    /\ strict = FALSE
    /\ WriterIdle
    /\ PageIdle

ApplyXref(x) ==
    /\ xref' = x.xref
    /\ xref_objStm' = x.xref_objStm
    /\ trailer' = x.trailer

\* one round of `while 1`: read the section, then follow /Prev or leave
ReadSection ==
    /\ ~readDone
    /\ ApplyXref(readSection(XS, sections[startxref]))
    /\ IF sections[startxref].prev # 0
       THEN startxref' = sections[startxref].prev /\ readDone' = FALSE
       ELSE startxref' = startxref /\ readDone' = TRUE
    /\ UNCHANGED <<readerVars, writerVars, pageVars, sections, found, xrefIndex,
                   strict>>

\* getObject(IndirectObject(idnum, generation, reader)) once read() is over
LocateObject(generation, idnum) ==
    /\ readDone
    /\ found' = [op |-> "getObject", generation |-> generation,
                 idnum |-> idnum, res |-> locate(XS, generation, idnum)]
    /\ UNCHANGED <<readerVars, writerVars, pageVars, sections, startxref, readDone,
                   xref, xref_objStm, trailer, xrefIndex, strict>>

XrefNext ==
    \/ ReadSection
    \/ \E generation \in Gens, idnum \in XIds : LocateObject(generation, idnum)

SpecXref == InitXref /\ [][XrefNext]_vars

\* ------------------------------------------------------------------------
\* PdfFileWriter.write: the file
\* ------------------------------------------------------------------------
\* The file is the sequence of the pieces written, each with what it says
\* (an object id, an offset, a count) and its length in bytes.
\* key = None
NoKey == [key |-> <<>>, len |-> 0]

\* a piece that is written with no key
Token(t, n, len) == [t |-> t, n |-> n, len |-> len, key |-> NoKey]

\* lines 250-254 of write(): md5(self._encrypt_key + pack1 + pack2), cut to
\* min(16, len(self._encrypt_key) + 5) bytes; pack1 is the three low bytes
\* of the id and pack2 the two low bytes of 0
perObjectKey(e, idnum) ==
    [key |-> [e.key EXCEPT !.kind = "obj", !.id = idnum % 16777216,
                           !.gen = 0 % 65536],
     len |-> IF 16 < e.keylen + 5 THEN 16 ELSE e.keylen + 5]

\* the key of write() with the /Encrypt dictionary keyed like the others
writeKeyOfAll(w, idnum) ==
    IF w.encrypt # NoEncryption THEN perObjectKey(w.encrypt, idnum) ELSE NoKey

\* lines 248-254 of write(): the key obj.writeToStream is called with
writeKey(w, idnum) ==
    IF w.encrypt # NoEncryption /\ idnum # w.encrypt.idnum
    THEN perObjectKey(w.encrypt, idnum)
    ELSE NoKey

\* stream.tell()
RECURSIVE tell(_)
tell(s) == IF s = <<>> THEN 0 ELSE s[Len(s)].len + tell(SubSeq(s, 1, Len(s) - 1))

\* len(str(n))
RECURSIVE Digits(_)
Digits(n) == IF n < 10 THEN 1 ELSE 1 + Digits(n \div 10)

\* the bytes obj.writeToStream produces
BodyLen(w, obj) ==
    IF obj.k = "stream" THEN 17 ELSE 4 + 6 * Len(w.heap[obj.id])

\* the header "%PDF-1.3" and a newline
HeaderLen == 9

\* obj.writeToStream(stream, key)
Body(w, idnum, obj) ==
    [Token("body", idnum, BodyLen(w, obj)) EXCEPT !.key = writeKey(w, idnum)]

File(s, positions) == [stream |-> s, object_positions |-> positions]

\* one round of the loop over self._objects, the position taken after the
\* header of the object is written
writeObjectAfterHeader(w, o, idnum, obj) ==
    With(Append(o.stream, Token("obj", idnum, Digits(idnum) + 7)), LAMBDA s :
        File(IF obj # None
             THEN s \o <<Body(w, idnum, obj),
                         Token("endobj", idnum, 8)>>
             ELSE s,
             Append(o.object_positions, tell(s))))

\* one round of the loop over self._objects (lines 243-257)
writeObject(w, o, idnum, obj) ==
    With(Append(o.object_positions, tell(o.stream)), LAMBDA positions :
        File(o.stream \o <<Token("obj", idnum, Digits(idnum) + 7)>> \o
             (IF obj # None
              THEN <<Body(w, idnum, obj),
                     Token("endobj", idnum, 8)>>
              ELSE <<>>),
             positions))

RECURSIVE writeObjects(_, _, _)
writeObjects(w, o, i) ==
    IF i >= Len(w.objects) THEN o
    ELSE writeObjects(w, writeObject(w, o, i + 1, w.objects[i + 1]), i + 1)

\* lines 260-265: the xref table
writeXref(o, n) ==
    o.stream \o
    <<Token("xref", 0, 5), Token("count", n + 1, 3 + Digits(n + 1)),
      Token("free", 0, 20)>> \o
    [i \in 1..Len(o.object_positions) |->
        Token("n", o.object_positions[i], 20)]

\* lines 268-281: the trailer, startxref and the end-of-file mark
writeTrailer(s, n, xref_location) ==
    s \o <<Token("trailer", n + 1, 8 + 30 + Digits(n + 1)),
           Token("startxref", xref_location, 12 + Digits(xref_location)),
           Token("eof", 0, 6)>>

\* lines 240-281 of write()
writeFile(w) ==
    With(writeObjects(w, File(<<Token("header", 0, HeaderLen)>>, <<>>), 0),
         LAMBDA o :
            writeTrailer(writeXref(o, Len(w.objects)), Len(w.objects),
                         tell(o.stream)))

\* ------------------------------------------------------------------------
\* Writer: initial states and actions
\* ------------------------------------------------------------------------
\* PdfFileWriter() and a reader whose pages and objects hold any references
InitWriter ==
    /\ doc = PlainDocument
    /\ ReaderInit
    /\ XrefIdle
    /\ PageIdle
    /\ \E E \in EdgeSets :
          /\ heap = HeapOf(E)
          /\ log = [NoLog EXCEPT !.edges = E]
    /\ objects = WriterObjects
    /\ externalReferenceMap = [f \in ForeignIds |-> 0]
    /\ stack = <<>>
    /\ frames = <<>>
    /\ ctl = NoCtl
    /\ stream = <<>>
    /\ encryption = NoEncryption

ApplyWriter(w) ==
    /\ heap' = w.heap
    /\ objects' = w.objects
    /\ externalReferenceMap' = w.externMap
    /\ stack' = w.stack
    /\ frames' = w.frames
    /\ ctl' = w.ctl
    /\ log' = w.log
    /\ encryption' = w.encrypt
    /\ UNCHANGED <<readerVars, xrefVars, pageVars>>

\* the page was not added to this writer before
Fresh(pid) == \A k \in 1..Len(objects) : indirectRef(objects[k]) # pid

\* addPage(reader.getPage(..))
AddPage(pid) ==
    /\ ctl.phase = "build"
    /\ Fresh(pid)
    /\ ApplyWriter(addPageAt(WS, pid, Len(Kids(WS))))
    /\ UNCHANGED stream

\* insertPage(reader.getPage(..), index)
InsertPage(pid, index) ==
    /\ ctl.phase = "build"
    /\ Fresh(pid)
    /\ ApplyWriter(addPageAt(WS, pid, index))
    /\ UNCHANGED stream

\* write(): lines 216-236, up to the call of the sweep on self._root
writeBegin(w) ==
    [w EXCEPT !.externMap = seed(w.externMap, w.objects, 0),
              !.stack = <<>>,
              !.ctl = [phase |-> "sweep", mode |-> "call", arg |-> rootRef]]

WriteBegin ==
    /\ ctl.phase = "build"
    /\ ApplyWriter(writeBegin(WS))
    /\ UNCHANGED stream

\* the sweep has returned to write()
SweepFinished == ctl.phase = "sweep" /\ ctl.mode = "return" /\ frames = <<>>

\* one step of _sweepIndirectReferences
SweepStep ==
    /\ ctl.phase = "sweep"
    /\ ~SweepFinished
    /\ Len(frames) < MaxDepth
    /\ ApplyWriter(sweepStep(WS))
    /\ UNCHANGED stream

\* write(): lines 237-281
WriteEnd ==
    /\ SweepFinished
    /\ stream' = writeFile(WS)
    /\ ctl' = [ctl EXCEPT !.phase = "written"]
    /\ UNCHANGED <<readerVars, xrefVars, pageVars, heap, objects,
                   externalReferenceMap,
                   stack, frames, log, encryption>>

WriterNext ==
    \/ \E pid \in ReaderPageIds : AddPage(pid)
    \/ \E pid \in ReaderPageIds : InsertPage(pid, 0)
    \/ WriteBegin
    \/ SweepStep
    \/ WriteEnd

SpecWriter == InitWriter /\ [][WriterNext]_vars

\* the sweep alone, on every order of added pages; a step of the sweep
\* that can be taken is taken
SweepNext ==
    \/ \E pid \in ReaderPageIds : AddPage(pid)
    \/ WriteBegin
    \/ SweepStep

SpecSweep == InitWriter /\ [][SweepNext]_vars /\ WF_vars(SweepStep)

\* ------------------------------------------------------------------------
\* Claims on the reader
\* ------------------------------------------------------------------------
\* the passwords the file was encrypted with, as the handler pads them
IsUserPassword(p) == PadSeq(p) = PadSeq(doc.userPwd)
IsOwnerPassword(p) == PadSeq(p) = PadSeq(doc.ownerPwd)

C2_ObjectsDecrypted ==
    (/\ last.op = "getObject"
     /\ last.keyBefore # <<>>
     /\ ~last.raised
     /\ last.num # EncryptId
     /\ Defined(last.num))
        => last.obj.str = Plain(<<last.num>>)

\* the value of attribute a a page at node n is to have: its own, else that
\* of the nearest ancestor that defines one, else none (0)
RECURSIVE NearestValue(_, _)
NearestValue(n, a) ==
    IF doc.attrs[n][a] # 0 THEN doc.attrs[n][a]
    ELSE IF n = PagesId THEN 0
    ELSE NearestValue(doc.parent[n], a)

\* C5: after flattening, every page holds for every inheritable attribute
\* its own value, else the value of its nearest defining ancestor, else none.
C5_InheritFromAncestors ==
    flattenedPages # <<>> =>
        \A i \in 1..Len(flattenedPages[1]) :
            \A a \in inheritablePageAttributes :
                flattenedPages[1][i].obj.attrs[a] =
                    NearestValue(flattenedPages[1][i].indirectRef, a)

\* the ids of the pages of the vector, in order
PageIds(flat) == [i \in 1..Len(flat) |-> flat[i].indirectRef]

\* a document is readable when it is in the clear or its key is stored
ReadableAtCall == ~doc.encrypted \/ last.keyBefore # <<>>

Lists(sec, generation, num) ==
    /\ sec.entries[num].t \in {"n", "c"}
    /\ sec.entries[num].gen = generation

RevisionsListing(generation, num) ==
    {r \in 1..Len(sections) : Lists(sections[r], generation, num)}

Newest(R) == CHOOSE r \in R : \A q \in R : r <= q

\* the object as the entry e locates it
Through(e) ==
    IF e.t = "c" THEN Located("objStm", e.a, e.b) ELSE Located("offset", e.a, 0)

\* C3: an object listed by more than one revision is located by getObject
\* through the entry of the newest revision that lists it, whether the
\* revisions list it at a byte offset or in an object stream.
C3_NewestRevisionWins ==
    (/\ found.op = "getObject"
     /\ Cardinality(RevisionsListing(found.generation, found.idnum)) > 1)
        => found.res =
             Through(sections[Newest(RevisionsListing(found.generation,
                                                      found.idnum))]
                        .entries[found.idnum])

\* C4: while read() goes from the newest section to the oldest, an
\* xref entry (generation, id), an object-stream entry or a trailer key that
\* is recorded keeps the value it was recorded with.
C4_Kept ==
    /\ \A k \in Gens \X XIds : xref[k] # <<>> => xref'[k] = xref[k]
    /\ \A num \in XIds : xref_objStm[num] # <<>> =>
                            xref_objStm'[num] = xref_objStm[num]
    /\ \A key \in TrailerKeys : trailer[key] # <<>> =>
                            trailer'[key] = trailer[key]
Swept == SweepFinished \/ ctl.phase = "written"

\* the values of object idnum of the writer
FieldsOf(idnum) ==
    IF objects[idnum].k = "obj" THEN heap[objects[idnum].id] ELSE <<>>

\* the ids of the writer's objects that the objects of S refer to
RefsFrom(S) ==
    {FieldsOf(k)[j].id : <<k, j>> \in
        {x \in S \X (1..(MaxRefs + 3)) :
            /\ x[2] <= Len(FieldsOf(x[1]))
            /\ FieldsOf(x[1])[x[2]].k = "ref"
            /\ FieldsOf(x[1])[x[2]].pdf = "w"}}

\* the objects reachable from those of S by references to the writer
RECURSIVE Reachable(_)
Reachable(S) ==
    IF RefsFrom(S) \subseteq S THEN S ELSE Reachable(S \cup RefsFrom(S))

AllLocal ==
    \A k \in Reachable({rootRef.id}) :
        \A j \in 1..Len(FieldsOf(k)) :
            FieldsOf(k)[j].k = "ref" => FieldsOf(k)[j].pdf = "w"

NoPlaceholder == \A k \in 1..Len(objects) : objects[k] # None

\* C7: when the sweep of write() has finished, every reference reachable
\* from the writer's root is a reference to the writer, and no entry of the
\* object vector is an empty placeholder.
C7_SweepComplete == Swept => (AllLocal /\ NoPlaceholder)

\* the id under which page pid of the reader was added (0: not added)
AddedAs(pid) ==
    IF \E k \in 1..Len(objects) : indirectRef(objects[k]) = pid
    THEN CHOOSE k \in 1..Len(objects) : indirectRef(objects[k]) = pid
    ELSE 0

\* C8: during one write() every reference to one foreign object is
\* rewritten to one local id and the object is copied at most once; a
\* reference to a foreign page that was added to the writer is rewritten to
\* the id of the added page, and the page is not copied.
C8_CopiedOnce ==
    \A f \in ForeignIds :
        /\ log.copies[f] <= 1
        /\ Cardinality(log.ids[f]) <= 1
        /\ log.ids[f] \subseteq {externalReferenceMap[f]}
        /\ (ctl.phase # "build" /\ f \in ReaderPageIds /\ AddedAs(f) # 0) =>
              /\ log.copies[f] = 0
              /\ log.ids[f] \subseteq {AddedAs(f)}

\* a written file: an object referred to twice and copied once, and
\* an annotation whose reference back to its page is now that of the page
C8_Witness ==
    /\ ctl.phase = "written"
    /\ \E f \in ReaderObjIds : log.refs[f] >= 2 /\ log.copies[f] = 1
    /\ \E p \in ReaderPageIds :
          /\ AddedAs(p) # 0
          /\ log.refs[p] >= 1
          /\ log.ids[p] = {AddedAs(p)}

\* C9: the sweep of write() comes to its end, whatever cycles the objects
\* of the writer and of the reader form.
C9_SweepTerminates == (ctl.phase = "sweep") ~> Swept

\* a sweep that ended on a page whose object refers back to it, and on two
\* foreign objects that refer to each other
C9_Witness ==
    /\ Swept
    /\ AddedAs(2) # 0
    /\ \E a \in ReaderObjIds, b \in ReaderObjIds :
          /\ a # b
          /\ {<<2, a>>, <<a, b>>, <<b, a>>} \subseteq log.edges
    /\ log.refs[4] >= 1 /\ log.refs[5] >= 1

\* the pieces of the file of one kind, in the order written
RECURSIVE Pieces(_, _)
Pieces(s, t) ==
    IF s = <<>> THEN <<>>
    ELSE (IF Head(s).t = t THEN <<Head(s)>> ELSE <<>>) \o Pieces(Tail(s), t)

\* the place of the first piece of kind t that says n
IndexOf(s, t, n) == CHOOSE i \in 1..Len(s) :
    /\ s[i].t = t /\ s[i].n = n
    /\ \A j \in 1..(i - 1) : ~(s[j].t = t /\ s[j].n = n)

\* the byte at which piece i begins
PositionOf(s, i) == tell(SubSeq(s, 1, i - 1))

\* C10: the file written has the header, then the objects in ascending id
\* order, then an xref table of one free entry and one in-use entry per
\* object (N + 1 entries, /Size N + 1) whose offset is the position of the
\* header `id 0 obj` of the object, and startxref is the position of xref.
C10_XrefLayout ==
    ctl.phase = "written" =>
        /\ stream[1].t = "header"
        /\ Len(Pieces(stream, "obj")) = Len(objects)
        /\ \A i \in 1..Len(objects) : Pieces(stream, "obj")[i].n = i
        /\ IndexOf(stream, "obj", Len(objects)) < IndexOf(stream, "xref", 0)
        /\ stream[IndexOf(stream, "xref", 0) + 1] =
              Token("count", Len(objects) + 1, 3 + Digits(Len(objects) + 1))
        /\ stream[IndexOf(stream, "xref", 0) + 2].t = "free"
        /\ Len(Pieces(stream, "free")) = 1
        /\ Len(Pieces(stream, "n")) = Len(objects)
        /\ \A i \in 1..Len(objects) :
              /\ stream[IndexOf(stream, "xref", 0) + 2 + i].t = "n"
              /\ stream[IndexOf(stream, "xref", 0) + 2 + i].n =
                    PositionOf(stream, IndexOf(stream, "obj", i))
        /\ Pieces(stream, "trailer")[1].n = Len(objects) + 1
        /\ Pieces(stream, "startxref")[1].n =
              PositionOf(stream, IndexOf(stream, "xref", 0))

\* a file of two pages and copied objects, one of them without a body
C10_Witness ==
    /\ ctl.phase = "written"
    /\ Len(objects) >= 7
    /\ \E k \in 1..Len(objects) : objects[k] = None
    /\ \E k \in 1..Len(objects) : objects[k] = StreamObject
    /\ Pieces(stream, "n")[Len(objects)].n > 99

\* ------------------------------------------------------------------------
\* PdfFileWriter: bookmarks, named destinations, encrypt
\* ------------------------------------------------------------------------
MaxBookmarks == 1
MaxDests == 1
MaxEncrypts == 1

\* the dictionaries and arrays these operations make
ActionAddr(n) == 30 + n
ActionArrayAddr(n) == 40 + n
BookmarkAddr(n) == 50 + n
DestAddr(n) == 60 + n
DestArrayAddr(n) == 70 + n
EncryptAddr(n) == 90 + n
OutlineAddr == 81
NamesAddr == 82
DestsAddr == 83
NdAddr == 84
BookmarkAddrs == {BookmarkAddr(n) : n \in 1..MaxBookmarks}
DestAddrs == {DestAddr(n) : n \in 1..MaxDests}
EncryptAddrs == {EncryptAddr(n) : n \in 1..MaxEncrypts}
OutlineAddrs ==
    {ActionAddr(n) : n \in 1..MaxBookmarks}
    \cup {ActionArrayAddr(n) : n \in 1..MaxBookmarks}
    \cup BookmarkAddrs \cup DestAddrs
    \cup {DestArrayAddr(n) : n \in 1..MaxDests}
    \cup EncryptAddrs \cup {OutlineAddr, NamesAddr, DestsAddr, NdAddr}

\* a name, a number or a string that holds no reference
Literal == Val("lit", "", 0)

\* the number of entries of the object vector that are objects made at S
NumAt(objs, S) ==
    Cardinality({k \in 1..Len(objs) : objs[k].k = "obj" /\ objs[k].id \in S})

\* _addObject with the entry put first (the ids of all others change)
addObjectFirst(w, obj) == [w EXCEPT !.objects = <<obj>> \o @]

\* _addObject: the object is appended; the reference returned is
\* IndirectObject(len(self._objects), 0, self)
addObject(w, obj) == [w EXCEPT !.objects = Append(@, obj)]

lastRef(w) == IndirectObject(Len(w.objects), "w")

\* key in root, for a key whose value is a reference to the object at a
hasKey(w, a) ==
    \E j \in 1..Len(w.heap[RootAddr]) :
        w.objects[w.heap[RootAddr][j].id] = DictionaryObject(a)

\* getOutlineRoot: the outline of the catalog, made when there is none
getOutlineRoot(w) ==
    IF hasKey(w, OutlineAddr) THEN w
    ELSE With(addObject(w, DictionaryObject(OutlineAddr)), LAMBDA w1 :
            [w1 EXCEPT !.heap[RootAddr] = Append(@, lastRef(w1))])

\* getNamedDestRoot: the array /Names of /Root/Names/Dests, the three made
\* when the catalog has no /Names
getNamedDestRoot(w) ==
    IF hasKey(w, NamesAddr) THEN w
    ELSE With(addObject(w, DictionaryObject(NamesAddr)), LAMBDA w1 :
         With(addObject([w1 EXCEPT !.heap[RootAddr] = Append(@, lastRef(w1))],
                        DictionaryObject(DestsAddr)), LAMBDA w2 :
            [w2 EXCEPT !.heap[NamesAddr] = <<lastRef(w2)>>,
                       !.heap[DestsAddr] = <<DictionaryObject(NdAddr)>>,
                       !.heap[NdAddr] = <<>>]))

\* the dictionary or array a reference of the writer resolves to
addrOf(w, ref) == w.objects[ref.id].id

\* TreeObject.addChild: /First, /Count and /Last of the parent, /Next of
\* the last child so far and /Prev of the new one
addChild(w, parent, child) ==
    IF w.heap[parent] = <<>> THEN
        [w EXCEPT !.heap[parent] = <<child, NumberObject(1), child>>]
    ELSE With(w.heap[parent][3], LAMBDA prev :
        [w EXCEPT !.heap[parent] = <<@[1], NumberObject(@[2].id + 1), child>>,
                  !.heap[addrOf(w, prev)] = Append(@, child),
                  !.heap[addrOf(w, child)] = Append(@, prev)])

\* addBookmark(title, pagenum): the action, the outline, the bookmark
addBookmark(w, n, pagenum) ==
    With(addObject(
            [w EXCEPT !.heap[ActionArrayAddr(n)] =
                          <<Kids(w)[pagenum + 1], Literal, NumberObject(826)>>,
                      !.heap[ActionAddr(n)] =
                          <<DictionaryObject(ActionArrayAddr(n)), Literal>>],
            DictionaryObject(ActionAddr(n))), LAMBDA w1 :
    With(getOutlineRoot(w1), LAMBDA w2 :
    With(addObject([w2 EXCEPT !.heap[BookmarkAddr(n)] = <<lastRef(w1), Literal>>],
                   DictionaryObject(BookmarkAddr(n))), LAMBDA w3 :
        addChild(w3, OutlineAddr, lastRef(w3)))))

\* addNamedDestination(title, pagenum)
addNamedDestination(w, n, pagenum) ==
    With(addObject(
            [w EXCEPT !.heap[DestArrayAddr(n)] =
                          <<Kids(w)[pagenum + 1], Literal, NumberObject(826)>>,
                      !.heap[DestAddr(n)] =
                          <<DictionaryObject(DestArrayAddr(n)), Literal>>],
            DictionaryObject(DestAddr(n))), LAMBDA w1 :
    With(getNamedDestRoot(w1), LAMBDA w2 :
        [w2 EXCEPT !.heap[NdAddr] = @ \o <<Literal, lastRef(w1)>>]))

\* the passwords the writer's file is encrypted with
UserPwd == <<1>>
OwnerPwd == <<2>>

\* encrypt(user_pwd, owner_pwd, use_128bit): the /Encrypt dictionary is an
\* object of the writer
writerEncrypt(w, n, use_128bit) ==
    With(addObject([w EXCEPT !.heap[EncryptAddr(n)] =
                                 <<Literal, Literal, Literal, Literal, Literal>>],
                   DictionaryObject(EncryptAddr(n))), LAMBDA w1 :
    With(encrypt(UserPwd, OwnerPwd, use_128bit), LAMBDA params :
        [w1 EXCEPT !.encrypt = [idnum |-> lastRef(w1).id, key |-> params.key,
                                keylen |-> params.keylen]]))

\* the reader's first page holds no reference besides /Parent, or one: to
\* itself, to the other page, to another object, or to an undefined id
PageEdgeSets == {{}} \cup {{<<2, t>>} : t \in EdgeTargets}

\* PdfFileWriter() and the reader
InitObjects ==
    /\ doc = PlainDocument
    /\ ReaderInit
    /\ XrefIdle
    /\ PageIdle
    /\ \E E \in PageEdgeSets :
          /\ heap = [a \in Addrs \cup OutlineAddrs |->
                        IF a \in Addrs THEN HeapOf(E)[a] ELSE <<>>]
          /\ log = [NoLog EXCEPT !.edges = E]
    /\ objects = WriterObjects
    /\ externalReferenceMap = [f \in ForeignIds |-> 0]
    /\ stack = <<>>
    /\ frames = <<>>
    /\ ctl = NoCtl
    /\ stream = <<>>
    /\ encryption = NoEncryption

AddBookmark(pagenum) ==
    /\ ctl.phase = "build"
    /\ pagenum < Len(Kids(WS))
    /\ NumAt(objects, BookmarkAddrs) < MaxBookmarks
    /\ ApplyWriter(addBookmark(WS, NumAt(objects, BookmarkAddrs) + 1, pagenum))
    /\ UNCHANGED stream

AddNamedDestination(pagenum) ==
    /\ ctl.phase = "build"
    /\ pagenum < Len(Kids(WS))
    /\ NumAt(objects, DestAddrs) < MaxDests
    /\ ApplyWriter(addNamedDestination(WS, NumAt(objects, DestAddrs) + 1, pagenum))
    /\ UNCHANGED stream

EncryptWriter(use_128bit) ==
    /\ ctl.phase = "build"
    /\ NumAt(objects, EncryptAddrs) < MaxEncrypts
    /\ ApplyWriter(writerEncrypt(WS, NumAt(objects, EncryptAddrs) + 1,
                                 use_128bit))
    /\ UNCHANGED stream

\* the sweep has returned to write()
sweepDone(w) == w.ctl.mode = "return" /\ w.frames = <<>>

\* one step of the sweep, if it has not returned; 2, 4, 8, 16, 32 steps
sweep1(w) == IF sweepDone(w) THEN w ELSE sweepStep(w)
sweep2(w) == With(sweep1(w), LAMBDA w1 : sweep1(w1))
sweep4(w) == With(sweep2(w), LAMBDA w1 : sweep2(w1))
sweep8(w) == With(sweep4(w), LAMBDA w1 : sweep4(w1))
sweep16(w) == With(sweep8(w), LAMBDA w1 : sweep8(w1))
sweep32(w) == With(sweep16(w), LAMBDA w1 : sweep16(w1))

\* _sweepIndirectReferences(externalReferenceMap, self._root), to its end
RECURSIVE sweepAll(_)
sweepAll(w) ==
    IF sweepDone(w) THEN w ELSE With(sweep32(w), LAMBDA w1 : sweepAll(w1))

\* write(stream): the map is seeded, the objects are swept, the file is
\* written; the map is a local of write(), and so is the record of what
\* the sweep did
Write ==
    /\ ctl.phase = "build"
    /\ \E w \in {sweepAll(writeBegin(WS))} :
          /\ ApplyWriter([w EXCEPT !.ctl = NoCtl,
                                   !.externMap = [f \in ForeignIds |-> 0],
                                   !.log = [NoLog EXCEPT !.edges = w.log.edges]])
          /\ stream' = writeFile(w)

ObjectsNext ==
    \/ \E pid \in ReaderPageIds : AddPage(pid)
    \/ \E pid \in ReaderPageIds : InsertPage(pid, 0)
    \/ \E pagenum \in 0..1 : AddBookmark(pagenum)
    \/ \E pagenum \in 0..1 : AddNamedDestination(pagenum)
    \/ EncryptWriter(TRUE)
    \/ Write

SpecObjects == InitObjects /\ [][ObjectsNext]_vars

\* every entry of the object vector is kept where it is
ObjectsKept ==
    /\ Len(objects') >= Len(objects)
    /\ \A k \in 1..Len(objects) : objects'[k] = objects[k]

\* C11: the id of an object of the writer is its 1-based position in the
\* object vector: whatever addPage, insertPage, addBookmark,
\* addNamedDestination, encrypt and write do, in any order, no entry is
\* removed or moved, entries are only appended, and a reference the writer
\* returned resolves to the same object for good.
C11_ObjectsAppendOnly == [][ObjectsKept]_vars

\* a file was written, with an object copied from the reader, and pages,
\* a bookmark, a named destination or the /Encrypt dictionary were added
\* after it
C11_Witness ==
    /\ ctl.phase = "build"
    /\ stream # <<>>
    /\ Len(Pieces(stream, "obj")) < Len(objects)
    /\ NumAt(objects, BookmarkAddrs) = 1
    /\ NumAt(objects, DestAddrs) = 1
    /\ NumAt(objects, EncryptAddrs) = 1
    /\ NumAt(objects, ReaderObjIds) >= 1
    /\ AddedAs(2) # 0 /\ AddedAs(3) # 0

\* ------------------------------------------------------------------------
\* PdfFileWriter: the page tree under addPage, insertPage, addBlankPage
\* and insertBlankPage
\* ------------------------------------------------------------------------
MaxBlankPages == 2
MaxIndex == 2

\* the PageObject of the n-th createBlankPage
BlankAddr(n) == 23 + n
BlankAddrs == {BlankAddr(n) : n \in 1..MaxBlankPages}

\* the positions insertPage and insertBlankPage are called with
Indexes == (0 - MaxIndex)..MaxIndex

\* a width or a height: None, or a number
Sizes == {0, 1}

\* _addPage(page, action) for the page object at addr
addPageObject(w, addr, index) ==
    [w EXCEPT !.heap[addr][1] = pagesRef,
              !.objects = Append(@, DictionaryObject(addr)),
              !.heap[PagesAddr] =
                  <<NumberObject(Count(w) + 1)>> \o
                  InsertAt(Kids(w), index,
                           IndirectObject(Len(w.objects) + 1, "w"))]

\* the outcome of an operation: the writer after it, and whether it raised
\* and what
Done(w) == [st |-> w, raised |-> FALSE, error |-> ""]
Raised(w, error) == [st |-> w, raised |-> TRUE, error |-> error]

\* PdfFileWriter.getNumPages
writerGetNumPages(w) == Count(w)

\* pages["/Kids"][pageNumber] of getPage does not raise IndexError
hasPage(w, pageNumber) ==
    pageNumber < Len(Kids(w)) /\ pageNumber >= 0 - Len(Kids(w))

\* PageObject.createBlankPage(pdf, width, height): /Parent null,
\* /Resources, /MediaBox; PageSizeNotDefinedError without a size and
\* without a page to take it from
createBlankPage(w, n, width, height) ==
    IF (width = 0 \/ height = 0) /\ ~(writerGetNumPages(w) > 0)
    THEN Raised(w, "PageSizeNotDefinedError")
    ELSE Done([w EXCEPT !.heap[BlankAddr(n)] = <<None, Literal, Literal>>])

\* addBlankPage(width, height)
addBlankPage(w, n, width, height) ==
    With(createBlankPage(w, n, width, height), LAMBDA c :
        IF c.raised THEN c
        ELSE Done(addPageObject(c.st, BlankAddr(n), Len(Kids(c.st)))))

\* insertBlankPage(width, height, index): `or` binds weaker than `and` in
\* the condition of line 153; getPage(index) is an IndexError when /Kids has
\* no such position
insertBlankPage(w, n, width, height, index) ==
    IF (width = 0 \/ (height = 0 /\ writerGetNumPages(w) - 1 >= index))
       /\ ~hasPage(w, index)
    THEN Raised(w, "IndexError")
    ELSE With(IF width = 0 \/ (height = 0 /\ writerGetNumPages(w) - 1 >= index)
              THEN createBlankPage(w, n, 1, 1)
              ELSE createBlankPage(w, n, width, height), LAMBDA c :
        IF c.raised THEN c
        ELSE Done(addPageObject(c.st, BlankAddr(n), index)))

\* the page objects of /Kids, in order
KidAddrs(w) == [i \in 1..Len(Kids(w)) |-> w.objects[Kids(w)[i].id].id]

\* What the last operation was: its name, the page object it was given or
\* made, its index, /Kids before it, whether it raised; the number of
\* additions that did not raise; the width and height it was given, the
\* error it raised and the object vector before it.
Op(op, page, index, before, raised, added) ==
    [op |-> op, page |-> page, index |-> index, before |-> before,
     raised |-> raised, added |-> added, size |-> <<1, 1>>, error |-> "",
     objects |-> <<>>]

Record(r, op, page, index) ==
    [r.st EXCEPT !.log = [Op(op, page, index, KidAddrs(WS), r.raised,
                             IF r.raised THEN log.added ELSE log.added + 1)
                             EXCEPT !.error = r.error, !.objects = objects]]

\* the same for an operation given a width and a height
RecordSized(r, op, page, index, width, height) ==
    [r.st EXCEPT !.log = [Record(r, op, page, index).log
                             EXCEPT !.size = <<width, height>>]]

InitPageTree ==
    /\ doc = PlainDocument
    /\ ReaderInit
    /\ XrefIdle
    /\ PageIdle
    /\ heap = [a \in Addrs \cup BlankAddrs |->
                  IF a \in Addrs THEN HeapOf({})[a] ELSE <<>>]
    /\ log = Op("", 0, 0, <<>>, FALSE, 0)
    /\ objects = WriterObjects
    /\ externalReferenceMap = [f \in ForeignIds |-> 0]
    /\ stack = <<>>
    /\ frames = <<>>
    /\ ctl = NoCtl
    /\ stream = <<>>
    /\ encryption = NoEncryption

TreeAddPage(pid) ==
    /\ Fresh(pid)
    /\ ApplyWriter(Record(Done(addPageAt(WS, pid, Len(Kids(WS)))),
                          "addPage", PageAddr(pid), 0))
    /\ UNCHANGED stream

TreeInsertPage(pid, index) ==
    /\ Fresh(pid)
    /\ ApplyWriter(Record(Done(addPageAt(WS, pid, index)),
                          "insertPage", PageAddr(pid), index))
    /\ UNCHANGED stream

AddBlankPage(width, height) ==
    /\ NumAt(objects, BlankAddrs) < MaxBlankPages
    /\ ApplyWriter(RecordSized(addBlankPage(WS, NumAt(objects, BlankAddrs) + 1,
                                            width, height),
                               "addBlankPage",
                               BlankAddr(NumAt(objects, BlankAddrs) + 1), 0,
                               width, height))
    /\ UNCHANGED stream

InsertBlankPage(width, height, index) ==
    /\ NumAt(objects, BlankAddrs) < MaxBlankPages
    /\ ApplyWriter(RecordSized(insertBlankPage(WS, NumAt(objects, BlankAddrs) + 1,
                                               width, height, index),
                               "insertBlankPage",
                               BlankAddr(NumAt(objects, BlankAddrs) + 1), index,
                               width, height))
    /\ UNCHANGED stream

PageTreeNext ==
    \/ \E pid \in ReaderPageIds : TreeAddPage(pid)
    \/ \E pid \in ReaderPageIds, index \in Indexes : TreeInsertPage(pid, index)
    \/ \E width \in Sizes, height \in Sizes : AddBlankPage(width, height)
    \/ \E width \in Sizes, height \in Sizes, index \in Indexes :
          InsertBlankPage(width, height, index)

SpecPageTree == InitPageTree /\ [][PageTreeNext]_vars

\* s without its i-th element
Without(s, i) == SubSeq(s, 1, i - 1) \o SubSeq(s, i + 1, Len(s))

\* the page of the last operation is at position i (0-based) of /Kids and
\* the other pages are in the order they were in
PlacedAt(i) ==
    /\ i >= 0 /\ i < Len(Kids(WS))
    /\ KidAddrs(WS)[i + 1] = log.page
    /\ Without(KidAddrs(WS), i + 1) = log.before

Appended == log.op \in {"addPage", "addBlankPage"} /\ ~log.raised
Inserted == log.op \in {"insertPage", "insertBlankPage"} /\ ~log.raised

\* /Count = length of /Kids = number of additions that did not raise, and
\* an operation that raised left /Kids as it was
CountsAgree ==
    /\ Count(WS) = Len(Kids(WS))
    /\ Count(WS) = log.added
    /\ writerGetNumPages(WS) = log.added
    /\ log.raised => KidAddrs(WS) = log.before

\* C12 as stated: insertPage(page, index) places the page at position
\* index, whatever index is.
C12_AsStated ==
    /\ CountsAgree
    /\ Appended => PlacedAt(Len(log.before))
    /\ Inserted => PlacedAt(log.index)

\* C12: after any sequence of addPage, insertPage, addBlankPage and
\* insertBlankPage, /Count of the page-tree root = length of /Kids = the
\* number of additions that did not raise = getNumPages(); addPage and
\* addBlankPage place the page last; insertPage and insertBlankPage with
\* 0 <= index <= number of pages place it at position index, with a larger
\* index place it last, and with a negative index place it at position
\* max(0, number of pages + index); the other pages keep their order.
C12_PageTree ==
    /\ CountsAgree
    /\ Appended => PlacedAt(Len(log.before))
    /\ (Inserted /\ log.index >= 0 /\ log.index <= Len(log.before)) =>
          PlacedAt(log.index)
    /\ (Inserted /\ log.index > Len(log.before)) => PlacedAt(Len(log.before))
    /\ (Inserted /\ log.index < 0 /\ Len(log.before) + log.index >= 0) =>
          PlacedAt(Len(log.before) + log.index)
    /\ (Inserted /\ Len(log.before) + log.index < 0) => PlacedAt(0)

\* a page was inserted between two of three pages
C12_Witness ==
    /\ log.op = "insertPage" /\ ~log.raised
    /\ log.index = 1
    /\ Len(log.before) = 3
    /\ PlacedAt(1)

\* ------------------------------------------------------------------------
\* ContentStream: the data of a content stream and its operations
\* ------------------------------------------------------------------------
MaxData == 2

\* The data of a stream is a sequence of characters. Those of an operator
\* ("a", and "q", "Q", "cm" taken as one character each), those of a
\* number ("1", and "0", "0.5" taken as one each), and white space.
OperatorChars == {"a", "q", "Q", "cm"}
NumberChars == {"1", "0", "0.5"}
Whitespace == {" ", "\n"}
\* the characters of the streams of the pages given
DataChars == {"a", "1", " "}

\* the strings of up to n characters
RECURSIVE Strings(_)
Strings(n) ==
    IF n = 0 THEN {<<>>}
    ELSE Strings(n - 1) \cup
         {Append(s, c) : s \in {x \in Strings(n - 1) : Len(x) = n - 1},
                         c \in DataChars}

\* ([operands], operator)
Operation(operands, operator) == [operands |-> operands, operator |-> operator]

\* the number of leading characters of s that are in S
RECURSIVE LeadLen(_, _)
LeadLen(s, S) ==
    IF s = <<>> THEN 0
    ELSE IF Head(s) \in S THEN 1 + LeadLen(Tail(s), S) ELSE 0

\* s without its first n characters
Drop(s, n) == SubSeq(s, n + 1, Len(s))

\* __parseContentStream: white space is skipped; a letter begins an
\* operator, which runs up to white space and closes an operation; anything
\* else is an operand, read by readObject (a number ends where its digits
\* end); operands that no operator follows are dropped
RECURSIVE parseContentStream(_, _)
parseContentStream(s, operands) ==
    IF s = <<>> THEN <<>>
    ELSE IF Head(s) \in Whitespace THEN parseContentStream(Tail(s), operands)
    ELSE IF Head(s) \in OperatorChars THEN
        With(LeadLen(s, OperatorChars \cup NumberChars), LAMBDA n :
            <<Operation(operands, SubSeq(s, 1, n))>> \o
            parseContentStream(Drop(s, n), <<>>))
    ELSE
        With(LeadLen(s, NumberChars), LAMBDA n :
            parseContentStream(Drop(s, n), Append(operands, SubSeq(s, 1, n))))

\* the operands of an operation as _getData writes them: each followed by
\* a space
RECURSIVE writeOperands(_)
writeOperands(operands) ==
    IF operands = <<>> THEN <<>>
    ELSE Head(operands) \o <<" ">> \o writeOperands(Tail(operands))

\* ContentStream._getData: operands, operator, newline
RECURSIVE getDataOf(_)
getDataOf(operations) ==
    IF operations = <<>> THEN <<>>
    ELSE writeOperands(Head(operations).operands) \o Head(operations).operator
         \o <<"\n">> \o getDataOf(Tail(operations))

\* /Contents: nothing, a stream with its decoded data, an array of streams,
\* or a ContentStream with its operations
Contents(kind, data, items, operations) ==
    [kind |-> kind, data |-> data, items |-> items, operations |-> operations]
NoContents == Contents("none", <<>>, <<>>, <<>>)
Stream(data) == Contents("stream", data, <<>>, <<>>)
ArrayObject(items) == Contents("array", <<>>, items, <<>>)
ContentStreamOf(operations) == Contents("content", <<>>, <<>>, operations)

\* getData() of a stream or of a ContentStream
getData(s) ==
    IF s.kind = "content" THEN getDataOf(s.operations) ELSE s.data

\* lines 51-54: data += s.getObject().getData() for s in stream
RECURSIVE joinData(_)
joinData(items) ==
    IF items = <<>> THEN <<>>
    ELSE getData(Head(items)) \o joinData(Tail(items))

\* ContentStream(stream, pdf)
ContentStream(s) ==
    ContentStreamOf(parseContentStream(
        IF s.kind = "array" THEN joinData(s.items) ELSE getData(s), <<>>))

\* _pushPopGS(contents, pdf)
pushPopGS(contents) ==
    ContentStreamOf(<<Operation(<<>>, <<"q">>)>> \o
                    ContentStream(contents).operations \o
                    <<Operation(<<>>, <<"Q">>)>>)

\* FloatObject(x) as it is written
FloatObject(x) == <<x>>

\* _addTransformationMatrix(contents, pdf, ctm): the operator is " cm"
addTransformationMatrix(contents, ctm) ==
    ContentStreamOf(
        <<Operation([i \in 1..6 |-> FloatObject(ctm[i])], <<" ", "cm">>)>> \o
        ContentStream(contents).operations)

\* _contentStreamRename(stream, rename, pdf): the stream itself when
\* nothing is renamed
contentStreamRename(s, rename) ==
    IF rename = {} THEN s ELSE ContentStream(s)

\* the contents a page may have: none, a stream, an array of two streams
GivenContents ==
    {NoContents} \cup {Stream(d) : d \in Strings(MaxData)}
    \cup {ArrayObject(<<Stream(d1), Stream(d2)>>) :
            d1 \in Strings(MaxData - 1), d2 \in Strings(MaxData - 1)}

\* ------------------------------------------------------------------------
\* PageObject._mergeResources: one resource category of two pages
\* ------------------------------------------------------------------------
MaxSuffix == 1
MaxValues == 2

\* A resource name is /F followed by "renamed" a number of times; the
\* pages handed to mergePage use names with up to MaxSuffix of them.
GivenNames == 0..MaxSuffix
Names == 0..(MaxSuffix + 1)
\* key + "renamed"
Renamed(key) == key + 1

\* the value a name is bound to: 0 when the category does not have the name
Values == 0..MaxValues

\* one category of /Resources: name -> value
Category(f) == [key \in Names |-> IF key \in DOMAIN f THEN f[key] ELSE 0]
Categories == {Category(f) : f \in [GivenNames -> Values]}
keys(res) == {key \in Names : res[key] # 0}

\* the orders in which `for key in page2Res.keys()` may go over the keys
Orders(S) ==
    {o \in [1..Cardinality(S) -> S] :
        \A i, j \in 1..Cardinality(S) : o[i] = o[j] => i = j}

\* the body of the loop of _mergeResources, lines 232-237
mergeKey(newRes, page2Res, key) ==
    IF newRes[key] # 0 /\ newRes[key] # page2Res[key] THEN
        [newRes EXCEPT ![Renamed(key)] = page2Res[key]]
    ELSE IF newRes[key] = 0 THEN [newRes EXCEPT ![key] = page2Res[key]]
    ELSE newRes

\* the renaming the body of the loop records
renameKey(newRes, page2Res, key) ==
    IF newRes[key] # 0 /\ newRes[key] # page2Res[key] THEN {key} ELSE {}

\* _mergeResources(res1, res2, resource) with the keys taken in order: the
\* merged category and the names renamed
RECURSIVE mergeResources(_, _, _, _)
mergeResources(newRes, renameRes, page2Res, order) ==
    IF order = <<>> THEN [new |-> newRes, rename |-> renameRes]
    ELSE mergeResources(mergeKey(newRes, page2Res, Head(order)),
                        renameRes \cup renameKey(newRes, page2Res, Head(order)),
                        page2Res, Tail(order))

\* ------------------------------------------------------------------------
\* PageObject.mergePage and mergeScaledPage
\* ------------------------------------------------------------------------
\* a page: one category of its /Resources, and its /Contents
Page(resources, contents) == [resources |-> resources, contents |-> contents]

MaxMerges == 2

\* what the last merge was given and what it found: the other page, this
\* page before, the matrix, the names renamed, and the number of merges
Merge(op, page2, before, ctm, rename) ==
    [op |-> op, page2 |-> page2, before |-> before, ctm |-> ctm,
     rename |-> rename, n |-> 1]

\* lines 340-352: newContentArray; ctm is <<>> when there is no
\* page2transformation
newContentArray(originalContent, page2Content, ctm, rename) ==
    (IF originalContent # NoContents
     THEN <<pushPopGS(originalContent)>> ELSE <<>>)
    \o (IF page2Content # NoContents
        THEN <<pushPopGS(contentStreamRename(
                   IF ctm # <<>>
                   THEN addTransformationMatrix(page2Content, ctm)
                   ELSE page2Content, rename))>>
        ELSE <<>>)

\* _mergePage(page2, page2transformation, ctm), the keys of the other
\* page's category taken in order: the page after it and the names renamed
mergePage(self, page2, ctm, order) ==
    With(mergeResources(self.resources, {}, page2.resources, order), LAMBDA m :
        [page |-> Page(m.new,
                       ContentStream(ArrayObject(
                           newContentArray(self.contents, page2.contents,
                                           ctm, m.rename)))),
         rename |-> m.rename])

\* mergeScaledPage(page2, factor): [factor, 0, 0, factor, 0, 0]
scaleMatrix(factor) == <<factor, "0", "0", factor, "0", "0">>

NoCategory == Category(<<>>)

\* pages without contents, with any bindings in the category
ResourcePages == {Page(res, NoContents) : res \in Categories}
\* pages without resources, with any contents
ContentPages == {Page(NoCategory, c) : c \in GivenContents}

InitResources ==
    /\ doc = PlainDocument
    /\ ReaderInit
    /\ XrefIdle
    /\ WriterIdle
    /\ pageObject \in ResourcePages
    /\ pageOp = <<>>

InitContents ==
    /\ doc = PlainDocument
    /\ ReaderInit
    /\ XrefIdle
    /\ WriterIdle
    /\ pageObject \in ContentPages
    /\ pageOp = <<>>

\* the number of merges into the page so far
Merges == IF pageOp = <<>> THEN 0 ELSE pageOp.n

\* pageObject.mergePage(page2)
MergePage(page2) ==
    \E order \in Orders(keys(page2.resources)) :
        \E m \in {mergePage(pageObject, page2, <<>>, order)} :
            /\ pageObject' = m.page
            /\ pageOp' = [Merge("mergePage", page2, pageObject, <<>>, m.rename)
                              EXCEPT !.n = Merges + 1]
            /\ UNCHANGED <<readerVars, xrefVars, writerVars>>

\* pageObject.mergeScaledPage(page2, factor)
MergeScaledPage(page2, factor) ==
    \E order \in Orders(keys(page2.resources)) :
        \E m \in {mergePage(pageObject, page2, scaleMatrix(factor), order)} :
            /\ pageObject' = m.page
            /\ pageOp' = [Merge("mergeScaledPage", page2, pageObject,
                                scaleMatrix(factor), m.rename)
                              EXCEPT !.n = Merges + 1]
            /\ UNCHANGED <<readerVars, xrefVars, writerVars>>

\* up to MaxMerges merges into a page, one after the other
ResourcesNext ==
    /\ Merges < MaxMerges
    /\ \E page2 \in ResourcePages : MergePage(page2)

SpecResources == InitResources /\ [][ResourcesNext]_vars

\* one merge into a page as it was read
ContentsNext ==
    /\ pageOp = <<>>
    /\ \E page2 \in ContentPages :
          \/ MergePage(page2)
          \/ MergeScaledPage(page2, "0.5")

SpecContents == InitContents /\ [][ContentsNext]_vars

\* C13: after mergePage, in a resource category of the merged /Resources,
\* every name of this page keeps the value it had before the merge, a name
\* only the other page has is bound to the other page's value, and a name
\* both have with different values is also there as name + "renamed",
\* bound to the other page's value; after any number of merges.
C13_MergedResources ==
    pageOp # <<>> =>
        \A key \in GivenNames \cup keys(pageOp.before.resources) :
            /\ pageOp.before.resources[key] # 0 =>
                  pageObject.resources[key] = pageOp.before.resources[key]
            /\ (pageOp.page2.resources[key] # 0
                /\ pageOp.before.resources[key] = 0) =>
                  pageObject.resources[key] = pageOp.page2.resources[key]
            /\ (pageOp.page2.resources[key] # 0
                /\ pageOp.before.resources[key] # 0
                /\ pageOp.page2.resources[key] # pageOp.before.resources[key]) =>
                  pageObject.resources[Renamed(key)] =
                      pageOp.page2.resources[key]

\* the data of the streams of an array with white space between them
RECURSIVE joinDataSeparated(_)
joinDataSeparated(items) ==
    IF items = <<>> THEN <<>>
    ELSE getData(Head(items)) \o <<"\n">> \o joinDataSeparated(Tail(items))

\* The operations of the /Contents of a page: those of its stream, or
\* those of the streams of its array one after the other (a stream of an
\* array ends where a token ends).
OperationsOf(contents) ==
    parseContentStream(IF contents.kind = "array"
                       THEN joinDataSeparated(contents.items)
                       ELSE getData(contents), <<>>)

q == Operation(<<>>, <<"q">>)
Q == Operation(<<>>, <<"Q">>)
cm(ctm) == Operation([i \in 1..6 |-> <<ctm[i]>>], <<"cm">>)

Merged(op) == pageOp # <<>> /\ pageOp.op = op

\* C14: merging a page without /Contents into a page yields a /Contents
\* whose operations are q, the operations the page had, in order, Q, and
\* then an empty pair q Q.
C14_MergeEmptyPage ==
    (Merged("mergePage") /\ pageOp.page2.contents = NoContents
     /\ pageOp.before.contents # NoContents) =>
        pageObject.contents.operations =
            <<q>> \o OperationsOf(pageOp.before.contents) \o <<Q, q, Q>>

\* C15: after mergeScaledPage(other, 0.5) the operations of the page are
\* q, the operations the page had, Q, then q, one cm with the operands
\* 0.5 0 0 0.5 0 0, the operations of the other page in order, Q.
C15_MergeScaledPage ==
    (Merged("mergeScaledPage") /\ pageOp.page2.contents # NoContents
     /\ pageOp.before.contents # NoContents) =>
        pageObject.contents.operations =
            <<q>> \o OperationsOf(pageOp.before.contents) \o <<Q>> \o
            <<q, cm(<<"0.5", "0", "0", "0.5", "0", "0">>)>> \o
            OperationsOf(pageOp.page2.contents) \o <<Q>>

\* the same for two pages whose /Contents is one stream each
ScaledMergeOfSingleStreams ==
    (pageOp # <<>> /\ pageOp.page2.contents.kind = "stream"
     /\ pageOp.before.contents.kind = "stream") => C15_MergeScaledPage

\* ------------------------------------------------------------------------
\* PdfFileWriter.write of an encrypted file: the key of each object
\* ------------------------------------------------------------------------
\* reader.py, getObject: the key an object (idnum, generation) is decrypted
\* with, md5(K + id[:3] + gen[:2]) cut to min(16, len(K) + 5) bytes
readerKey(K, keylen, idnum, generation) ==
    [key |-> ObjKey(K, idnum, generation),
     len |-> IF 16 < keylen + 5 THEN 16 ELSE keylen + 5]

EncryptedWriteNext ==
    \/ \E pid \in ReaderPageIds : AddPage(pid)
    \/ \E use_128bit \in BOOLEAN : EncryptWriter(use_128bit)
    \/ Write

SpecEncryptedWrite == InitObjects /\ [][EncryptedWriteNext]_vars

\* the file is the one write() makes of the writer as it is now
Current == stream # <<>> /\ Len(Pieces(stream, "obj")) = Len(objects)

\* C16: in a file written after encrypt(), every object but the /Encrypt
\* dictionary is serialized with the key derived from the document key, its
\* own id and generation 0, the key the reader derives for that id and
\* generation (cut to min(16, len(K) + 5) bytes); the /Encrypt dictionary and
\* the trailer are serialized with no key.
C16_PerObjectKeys ==
    (Current /\ encryption # NoEncryption) =>
        \A k \in 1..Len(stream) :
            /\ stream[k].t = "body" =>
                  stream[k].key =
                      IF stream[k].n = encryption.idnum THEN NoKey
                      ELSE readerKey(encryption.key, encryption.keylen,
                                     stream[k].n, 0)
            /\ stream[k].t = "trailer" => stream[k].key = NoKey

\* an encrypted file with a 40-bit key, the /Encrypt dictionary in it, and
\* objects made before and after encrypt() was called
C16_Witness ==
    /\ Current
    /\ encryption.keylen = 5
    /\ \E k \in 1..Len(stream) :
          stream[k].t = "body" /\ stream[k].n = encryption.idnum
    /\ \E k \in 1..Len(stream) :
          stream[k].t = "body" /\ stream[k].n > encryption.idnum
              /\ stream[k].key.len = 10
    /\ \E k \in 1..Len(stream) :
          stream[k].t = "body" /\ stream[k].n < encryption.idnum
              /\ stream[k].key # NoKey

\* ------------------------------------------------------------------------
\* PdfFileReader._decryptObject
\* ------------------------------------------------------------------------
MaxItems == 2
MaxNesting == 2

\* An object as readObject returns it: a string ("str", its bytes), a stream
\* ("stream", the values of its dictionary and its _data), a dictionary or an
\* array (the values it holds), an indirect reference or a number.
Node(k, items, data) == [k |-> k, items |-> items, data |-> data]
Leaves17 ==
    {Node(k, <<>>, Plain(<<1>>)) : k \in {"str", "ref", "num"}}

Tuples(S) == UNION {[1..n -> S] : n \in 0..MaxItems}

RECURSIVE Nodes(_)
Nodes(depth) ==
    IF depth = 0 THEN Leaves17
    ELSE With(Nodes(depth - 1), LAMBDA below :
        below \cup
        {Node(k, items, Plain(<<>>)) : k \in {"dict", "array"},
                                       items \in Tuples(below)} \cup
        {Node("stream", items, Plain(<<2>>)) : items \in Tuples(below)})

\* the object as an encrypted file stores it: every string and every stream
\* payload RC4-ed with the key of the object that contains it
RECURSIVE storedObject(_, _)
storedObject(obj, key) ==
    [k |-> obj.k,
     items |-> [i \in 1..Len(obj.items) |-> storedObject(obj.items[i], key)],
     data |-> IF obj.k \in {"str", "stream"} THEN RC4_encrypt(key, obj.data)
              ELSE obj.data]

\* _decryptObject(obj, key): the isinstance chain, in its order; a
\* StreamObject is a DictionaryObject, and the branch of the stream is taken
\* first
RECURSIVE _decryptObject(_, _)
_decryptObject(obj, key) ==
    IF obj.k = "str" THEN [obj EXCEPT !.data = RC4_encrypt(key, obj.data)]
    ELSE IF obj.k = "stream" THEN
        [obj EXCEPT !.data = RC4_encrypt(key, obj.data)]
    ELSE IF obj.k \in {"dict", "array"} THEN
        [obj EXCEPT !.items = [i \in 1..Len(obj.items) |->
                                   _decryptObject(obj.items[i], key)]]
    ELSE obj

\* the reader has the key of the file; readObject has returned the object
\* idnum of the file
InitDecryptObject ==
    /\ doc = Document(TRUE, encrypt(<<1>>, <<2>>, TRUE), <<1>>, <<2>>, OnePage,
                      FlatType, FlatParent, FlatAttrs, 1)
    /\ decryption_key = <<DocKey>>
    /\ override_encryption = FALSE
    /\ resolvedObjects = [id \in ObjIds |-> <<>>]
    /\ flattenedPages = <<>>
    /\ \E idnum \in {1, 2}, obj \in Nodes(MaxNesting) :
          last = [NoLast EXCEPT !.op = "readObject", !.num = idnum,
                     !.obj = storedObject(obj, ObjKey(DocKey, idnum, 0))]
    /\ XrefIdle
    /\ WriterIdle
    /\ PageIdle

\* retval = self._decryptObject(retval, key) of getObject
DecryptObject ==
    /\ last.op = "readObject"
    /\ last' = [last EXCEPT
                   !.op = "_decryptObject",
                   !.obj = _decryptObject(last.obj,
                               ObjKey(decryption_key[1], last.num, 0)),
                   !.keyBefore = decryption_key]
    /\ UNCHANGED <<doc, decryption_key, override_encryption, resolvedObjects,
                   flattenedPages, xrefVars, writerVars, pageVars>>

SpecDecryptObject == InitDecryptObject /\ [][DecryptObject]_vars

\* every string and stream payload of the object is plain
RECURSIVE AllPlain(_)
AllPlain(obj) ==
    /\ obj.data.keys = {}
    /\ \A i \in 1..Len(obj.items) : AllPlain(obj.items[i])

\* the same object but for the bytes of strings and streams
RECURSIVE SameShape(_, _)
SameShape(a, b) ==
    /\ a.k = b.k
    /\ Len(a.items) = Len(b.items)
    /\ a.data.base = b.data.base
    /\ a.k \notin {"str", "stream"} => a.data = b.data
    /\ \A i \in 1..Len(a.items) : SameShape(a.items[i], b.items[i])

\* C17: when the reader decrypts an indirect object, every string and every
\* stream payload in it, at any depth in arrays and dictionaries, the
\* dictionary of a stream included, is decrypted with the key of that
\* object, and references and other values are left as they are.
C17_DecryptsAll ==
    [][last'.op = "_decryptObject" =>
          /\ AllPlain(last'.obj)
          /\ SameShape(last.obj, last'.obj)]_vars

\* the same for objects in which no stream has a string, or a value that
\* holds one, in its dictionary
RECURSIVE HasString(_)
HasString(obj) ==
    obj.k \in {"str", "stream"} \/ \E i \in 1..Len(obj.items) : HasString(obj.items[i])

RECURSIVE StreamDictsPlain(_)
StreamDictsPlain(obj) ==
    /\ obj.k = "stream" => \A i \in 1..Len(obj.items) : ~HasString(obj.items[i])
    /\ \A i \in 1..Len(obj.items) : StreamDictsPlain(obj.items[i])

DecryptsAllButStreamDicts ==
    [][(last'.op = "_decryptObject" /\ StreamDictsPlain(last.obj)) =>
          /\ AllPlain(last'.obj)
          /\ SameShape(last.obj, last'.obj)]_vars

\* ------------------------------------------------------------------------
\* PdfFileReader.read: a classical table, its subsections and the
\* correction of a table that is not zero-indexed
\* ------------------------------------------------------------------------
MaxFirstId == 1
MaxEntries == 2

TableGens == {0, 1, 65535}
TableOffsets == {0, 10, 20}
TableIds == 0..(MaxFirstId + MaxEntries + 1)
HeaderIds == 1..(MaxFirstId + 1)

\* a 20-byte line: OOOOOOOOOO GGGGG n|f
TableEntry(offset, generation, flag) ==
    [offset |-> offset, generation |-> generation, flag |-> flag]

\* objects in use, the head of the free list, an object that was freed
TableEntries ==
    {TableEntry(10, 0, "n"), TableEntry(20, 0, "n"), TableEntry(10, 1, "n"),
     TableEntry(0, 65535, "f"), TableEntry(0, 1, "f")}

\* `first_id count` and count lines
Subsection(first, entries) == [first |-> first, entries |-> entries]

FirstSubsections ==
    {Subsection(num, e) : num \in 0..MaxFirstId,
                          e \in UNION {[1..n -> TableEntries] : n \in 1..MaxEntries}}

\* the subsections after the first: none, or one of one object in use
MoreSubsections(s) ==
    {<<>>} \cup
    {<<Subsection(s.first + Len(s.entries) + d, <<TableEntry(20, 0, "n")>>)>> :
        d \in {0, 1}}

Tables ==
    UNION {{<<s>> \o more : more \in MoreSubsections(s)} : s \in FirstSubsections}

\* the file: its table and the id of the object header found at each offset
\* (every object of the file has generation 0)
TableFile(table, headers) == [kind |-> "table", table |-> table,
                              headers |-> headers]

TX == [xref |-> xref, xrefIndex |-> xrefIndex]
EmptyXref == [k \in TableGens \X TableIds |-> <<>>]

\* lines 549-562: one line of a subsection; the flag is not looked at
readLine(x, num, e) ==
    IF x.xref[<<e.generation, num>>] # <<>> THEN x
    ELSE [x EXCEPT !.xref[<<e.generation, num>>] = <<e.offset>>]

RECURSIVE readLines(_, _, _)
readLines(x, num, entries) ==
    IF entries = <<>> THEN x
    ELSE readLines(readLine(x, num, Head(entries)), num + 1, Tail(entries))

\* lines 515-517: if firsttime and num != 0: self.xrefIndex = num
record(x, sub, firsttime) ==
    IF firsttime /\ sub.first # 0 THEN [x EXCEPT !.xrefIndex = sub.first] ELSE x

\* lines 513-568: the subsections of a table, up to `trailer`
RECURSIVE readSubsections(_, _, _)
readSubsections(x, subs, firsttime) ==
    IF subs = <<>> THEN x
    ELSE readSubsections(
            readLines(record(x, Head(subs), firsttime),
                      Head(subs).first, Head(subs).entries),
            Tail(subs), FALSE)

\* readObjectHeader at an offset: the id
readObjectHeader(file, offset) == file.headers[offset]

\* _zeroXref that leaves the map as it is
zeroXrefNot(x, generation) == x

\* _zeroXref(generation): every key k of the generation becomes k - xrefIndex
zeroXref(x, generation) ==
    [x EXCEPT !.xref = [k \in DOMAIN x.xref |->
        IF k[1] # generation THEN x.xref[k]
        ELSE IF <<generation, k[2] + x.xrefIndex>> \in DOMAIN x.xref
        THEN x.xref[<<generation, k[2] + x.xrefIndex>>]
        ELSE <<>>]]

\* lines 654-663: the loop over the ids of one generation, left at the first
\* header that says id - xrefIndex
verifyGeneration(x, file, gen) ==
    IF gen = 65535 THEN x
    ELSE IF \E id \in TableIds :
                /\ x.xref[<<gen, id>>] # <<>>
                /\ readObjectHeader(file, x.xref[<<gen, id>>][1])
                       = id - x.xrefIndex
    THEN zeroXref(x, gen)
    ELSE x

\* lines 653-665
verifyTable(x, file, isStrict) ==
    IF x.xrefIndex # 0 /\ ~isStrict THEN
        With(verifyGeneration(x, file, 0), LAMBDA x0 :
        With(verifyGeneration(x0, file, 1), LAMBDA x1 :
            verifyGeneration(x1, file, 65535)))
    ELSE x

\* the map and the index as the loop over the table leaves them
asRead(file) ==
    readSubsections([xref |-> EmptyXref, xrefIndex |-> 0], file.table, TRUE)

\* read(stream) of a file with one classical table
readTableFile(file, isStrict) == verifyTable(asRead(file), file, isStrict)

\* getObject, lines 382-417: not defined, or the object at the offset, or an
\* error
tableGetObject(x, file, isStrict, generation, idnum) ==
    IF \A id \in TableIds : x.xref[<<generation, id>>] = <<>>
    THEN Located("KeyError", 0, 0)
    ELSE IF idnum \notin TableIds \/ x.xref[<<generation, idnum>>] = <<>>
    THEN Located("None", 0, 0)
    ELSE With(x.xref[<<generation, idnum>>][1], LAMBDA start :
         With(readObjectHeader(file, start), LAMBDA id :
            IF id # idnum /\ (x.xrefIndex = 0 \/ isStrict)
            THEN Located("PdfReadError", start, id)
            ELSE IF generation # 0 THEN Located("AssertionError", start, id)
            ELSE Located("offset", start, id)))

InitTable ==
    /\ doc = PlainDocument
    /\ ReaderInit
    /\ WriterIdle
    /\ PageIdle
    /\ \E table \in Tables, headers \in [TableOffsets -> HeaderIds] :
          sections = <<TableFile(table, headers)>>
    /\ strict \in BOOLEAN
    /\ xrefIndex = 0
    /\ startxref = 1
    /\ readDone = FALSE
    /\ xref = EmptyXref
    /\ xref_objStm = [num \in XIds |-> <<>>]
    /\ trailer = [k \in TrailerKeys |-> <<>>]
    /\ found = NoFound

\* PdfFileReader(stream, strict): read()
ReadTable ==
    /\ ~readDone
    /\ \E x \in {readTableFile(sections[1], strict)} :
          /\ xref' = x.xref
          /\ xrefIndex' = x.xrefIndex
    /\ readDone' = TRUE
    /\ UNCHANGED <<readerVars, writerVars, pageVars, sections, startxref,
                   xref_objStm, trailer, found, strict>>

\* getObject(IndirectObject(idnum, generation, reader))
TableGetObject(generation, idnum) ==
    /\ readDone
    /\ found' = [op |-> "getObject", generation |-> generation,
                 idnum |-> idnum,
                 res |-> tableGetObject(TX, sections[1], strict, generation,
                                        idnum)]
    /\ UNCHANGED <<readerVars, writerVars, pageVars, sections, startxref,
                   readDone, xref, xref_objStm, trailer, xrefIndex, strict>>

TableNext ==
    \/ ReadTable
    \/ \E generation \in TableGens, idnum \in TableIds :
          TableGetObject(generation, idnum)

SpecTable == InitTable /\ [][TableNext]_vars

\* the first id of the first subsection
FirstId == sections[1].table[1].first

\* the map as the table gives it, before any correction
XrefAsRead == asRead(sections[1]).xref

\* a header seen for the generation says a stored id minus the offset
Observed(gen) ==
    /\ gen # 65535
    /\ \E id \in TableIds :
          /\ XrefAsRead[<<gen, id>>] # <<>>
          /\ sections[1].headers[XrefAsRead[<<gen, id>>][1]] = id - xrefIndex

\* every key of the generation is the key read minus the offset
Subtracted(gen) ==
    \A id \in TableIds :
        xref[<<gen, id>>] =
            IF id + xrefIndex \in TableIds
            THEN XrefAsRead[<<gen, id + xrefIndex>>] ELSE <<>>

Kept(gen) == \A id \in TableIds : xref[<<gen, id>>] = XrefAsRead[<<gen, id>>]

\* the offset is subtracted exactly for the generations with such a header
CorrectedWhenObserved ==
    \A gen \in TableGens :
        IF ~strict /\ xrefIndex # 0 /\ Observed(gen) THEN Subtracted(gen)
        ELSE Kept(gen)

\* in strict mode a header that is not the one asked for is a read error
StrictMismatchRaises ==
    (strict /\ found.op = "getObject" /\ found.res.via # "None"
        /\ found.res.via # "KeyError" /\ found.res.b # found.idnum)
    => found.res.via = "PdfReadError"

\* C18 as stated: the offset is recorded only when the first id of the first
\* subsection is not zero and the reader is not strict; it is subtracted
\* from every key of a generation exactly when a header seen says a stored
\* id minus the offset; in strict mode the map is left as read and a
\* header that does not match raises a read error.
C18_AsStated ==
    readDone =>
        /\ xrefIndex # 0 => (FirstId # 0 /\ ~strict)
        /\ CorrectedWhenObserved
        /\ strict => \A gen \in TableGens : Kept(gen)
        /\ StrictMismatchRaises

\* C18: the offset is recorded whenever the first id of the first subsection
\* is not zero, in strict mode too; when the reader is not strict it is
\* subtracted from every key of a generation (65535 is never looked at)
\* exactly when the header at one of the generation's offsets says a stored
\* id minus the offset; in strict mode the map is left as read and a header
\* that does not match raises a read error.
C18_ZeroIndex ==
    readDone =>
        /\ xrefIndex = FirstId
        /\ CorrectedWhenObserved
        /\ strict => \A gen \in TableGens : Kept(gen)
        /\ StrictMismatchRaises

\* a table that begins at id 1 was corrected for generation 0 and not for
\* generation 1, and an object was then found under its corrected id
C18_Witness ==
    /\ readDone
    /\ ~strict
    /\ xrefIndex = 1
    /\ Subtracted(0) /\ ~Kept(0)
    /\ Kept(1) /\ \E id \in TableIds : xref[<<1, id>>] # <<>>
    /\ found.op = "getObject"
    /\ found.res.via = "offset"
    /\ found.res.b = found.idnum

\* in strict mode the offset is recorded and a header that does not match
\* raised
StrictWitness ==
    /\ readDone
    /\ strict
    /\ xrefIndex = 1
    /\ found.op = "getObject"
    /\ found.res.via = "PdfReadError"

\* the lines of subsection j with the id each stands for: <<id, line>>
LinesOf(j) ==
    {<<sections[1].table[j].first + k - 1, sections[1].table[j].entries[k]>> :
        k \in DOMAIN sections[1].table[j].entries}

AllLines == UNION {LinesOf(j) : j \in DOMAIN sections[1].table}

\* a line of the free list
IsFree(e) == e.generation = 65535 /\ e.flag = "f"

\* C19: after a classical table is loaded (a table that begins at id 0, so
\* that no key is corrected), a line with generation 65535 and flag f has
\* added no mapping of its id to an offset, and getObject does not resolve
\* that id at an offset; every other line maps its id to its offset under
\* its generation.
C19_FreeEntries ==
    (readDone /\ xrefIndex = 0) =>
        /\ \A l \in AllLines :
              IF IsFree(l[2]) THEN xref[<<65535, l[1]>>] = <<>>
              ELSE xref[<<l[2].generation, l[1]>>] = <<l[2].offset>>
        /\ (found.op = "getObject" /\ found.generation = 65535)
              => found.res.via \in {"None", "KeyError"}

\* the same without the free list: every line that is not of the free list
\* maps its id to its offset under its generation
OtherLinesMapped ==
    (readDone /\ xrefIndex = 0) =>
        \A l \in AllLines :
            ~IsFree(l[2]) => xref[<<l[2].generation, l[1]>>] = <<l[2].offset>>

\* ------------------------------------------------------------------------
\* PageObject: the boxes (rectangle.py)
\* ------------------------------------------------------------------------
MaxRects == 2

BoxNames == {"/MediaBox", "/CropBox", "/BleedBox", "/TrimBox", "/ArtBox"}

\* the second argument of createRectangleAccessor
fallback(name) ==
    IF name = "/MediaBox" THEN <<>>
    ELSE IF name = "/CropBox" THEN <<"/MediaBox">>
    ELSE <<"/CropBox", "/MediaBox">>

\* What a page holds under the name of a box: nothing, an ArrayObject as
\* the parser made it ("array"), a RectangleObject ("rect"), or a reference
\* to an array of the file ("ref"); `at` is the object, whose four numbers
\* are in boxObjects.
BoxValue(k, at) == [k |-> k, at |-> at]
NoBox == BoxValue("None", 0)

\* the objects of the file, and those made later
FileRects == 1..3
RectAddrs == 1..(3 + MaxRects)
\* the numbers a box is changed to
NewNumbers == {9}
\* the boxes that other boxes fall back to
FallbackNames == {"/MediaBox", "/CropBox"}

\* the page: its entries, the four numbers of every array (0: no such
\* object yet), and where each entry came from (the file, a copy made by
\* getRectangle of the entry named, or the setter)
BoxPage(boxes, boxObjects, origin) ==
    [boxes |-> boxes, boxObjects |-> boxObjects, origin |-> origin]

\* self.get(name)
get(p, name) == p.boxes[name]

\* lines 40-43 with the last default that is there taken
RECURSIVE lastDefault(_, _)
lastDefault(p, defaults) ==
    IF defaults = <<>> THEN ""
    ELSE IF lastDefault(p, Tail(defaults)) # "" THEN lastDefault(p, Tail(defaults))
    ELSE IF get(p, Head(defaults)) # NoBox THEN Head(defaults)
    ELSE ""

\* lines 40-43: the first default that is there
RECURSIVE firstDefault(_, _)
firstDefault(p, defaults) ==
    IF defaults = <<>> THEN ""
    ELSE IF get(p, Head(defaults)) # NoBox THEN Head(defaults)
    ELSE firstDefault(p, Tail(defaults))

\* the next object made
newAddr(p) == CHOOSE a \in RectAddrs :
    p.boxObjects[a] = 0 /\ \A b \in RectAddrs : b < a => p.boxObjects[b] # 0

canMake(p) == \E a \in RectAddrs : p.boxObjects[a] = 0

\* RectangleObject(arr): a new array of the numbers of arr
newRectangle(p, arr) ==
    [page |-> [p EXCEPT !.boxObjects[newAddr(p)] = p.boxObjects[arr.at]],
     rect |-> BoxValue("rect", newAddr(p))]

\* setRectangle(self, name, value)
setRectangle(p, name, value, from) ==
    [p EXCEPT !.boxes[name] = value, !.origin[name] = from]

BoxResult(p, retval, raised) == [page |-> p, retval |-> retval, raised |-> raised]

\* getRectangle(self, name, defaults)
getRectangle(p, name, defaults) ==
    With(get(p, name), LAMBDA own :
        IF own.k = "rect" THEN BoxResult(p, own, FALSE)
        ELSE With(IF own = NoBox THEN firstDefault(p, defaults) ELSE name,
                  LAMBDA source :
            IF source = "" THEN BoxResult(p, NoBox, TRUE)
            ELSE With(IF get(p, source).k = "ref"
                      THEN BoxValue("array", get(p, source).at)
                      ELSE get(p, source), LAMBDA retval :
                 With(newRectangle(p, retval), LAMBDA made :
                    BoxResult(setRectangle(made.page, name, made.rect,
                                           IF source = name THEN p.origin[name]
                                           ELSE source),
                              made.rect, FALSE)))))

\* page.box.upperRight = ...: the rectangle the accessor returns is changed
\* in place
changeRectangle(p, name, numbers) ==
    With(getRectangle(p, name, fallback(name)), LAMBDA r :
        IF r.raised THEN r
        ELSE BoxResult([r.page EXCEPT !.boxObjects[r.retval.at] = numbers],
                       r.retval, FALSE))

\* page.box = RectangleObject(...)
assignRectangle(p, name, numbers) ==
    With(newAddr(p), LAMBDA a :
        BoxResult(setRectangle([p EXCEPT !.boxObjects[a] = numbers], name,
                               BoxValue("rect", a), "set"),
                  BoxValue("rect", a), FALSE))

\* del page.box
deleteRectangle(p, name) ==
    IF get(p, name) = NoBox THEN BoxResult(p, NoBox, TRUE)
    ELSE BoxResult(setRectangle(p, name, NoBox, ""), NoBox, FALSE)

\* the pages of a file: /MediaBox missing, an array, or a reference;
\* /CropBox missing, an array, or a reference (to the array of /MediaBox or
\* to one of its own); /BleedBox missing or an array
FilePages ==
    {BoxPage([n \in BoxNames |->
                 IF n = "/MediaBox" THEN m
                 ELSE IF n = "/CropBox" THEN c
                 ELSE IF n = "/BleedBox" THEN b ELSE NoBox],
             [a \in RectAddrs |-> IF a \in FileRects THEN a ELSE 0],
             [n \in BoxNames |-> IF n = "/MediaBox" /\ m # NoBox THEN "file"
                 ELSE IF n = "/CropBox" /\ c # NoBox THEN "file"
                 ELSE IF n = "/BleedBox" /\ b # NoBox THEN "file" ELSE ""]) :
        m \in {NoBox, BoxValue("array", 1), BoxValue("ref", 1)},
        c \in {NoBox, BoxValue("array", 2), BoxValue("ref", 1), BoxValue("ref", 2)},
        b \in {NoBox, BoxValue("array", 3)}}

BoxOp(op, name, r) == [op |-> op, name |-> name, retval |-> r.retval,
                       raised |-> r.raised]

InitBoxes ==
    /\ doc = PlainDocument
    /\ ReaderInit
    /\ XrefIdle
    /\ WriterIdle
    /\ pageObject \in FilePages
    /\ pageOp = <<>>

ApplyBox(op, name, r) ==
    /\ pageObject' = r.page
    /\ pageOp' = BoxOp(op, name, r)
    /\ UNCHANGED <<readerVars, xrefVars, writerVars>>

\* page.mediaBox, page.cropBox, ...
GetBox(name) ==
    /\ canMake(pageObject) \/ get(pageObject, name).k = "rect"
    /\ ApplyBox("get", name, getRectangle(pageObject, name, fallback(name)))

\* page.mediaBox.upperRight = ..., ...
ChangeBox(name, numbers) ==
    /\ canMake(pageObject) \/ get(pageObject, name).k = "rect"
    /\ ApplyBox("change", name, changeRectangle(pageObject, name, numbers))

\* page.mediaBox = RectangleObject(...), ...
SetBox(name, numbers) ==
    /\ canMake(pageObject)
    /\ ApplyBox("set", name, assignRectangle(pageObject, name, numbers))

\* del page.mediaBox, ...
DeleteBox(name) ==
    ApplyBox("delete", name, deleteRectangle(pageObject, name))

BoxesNext ==
    \/ \E name \in BoxNames : GetBox(name)
    \/ \E name \in FallbackNames, numbers \in NewNumbers :
          ChangeBox(name, numbers)
    \/ \E name \in FallbackNames, numbers \in NewNumbers :
          SetBox(name, numbers)
    \/ \E name \in FallbackNames : DeleteBox(name)

SpecBoxes == InitBoxes /\ [][BoxesNext]_vars

\* the four numbers of a box of the page
NumbersOf(p, name) == p.boxObjects[p.boxes[name].at]

\* the first box of the fallback chain that the page has
FirstPresent(p, name) ==
    IF name = "/MediaBox" THEN ""
    ELSE IF name # "/CropBox" /\ p.boxes["/CropBox"] # NoBox THEN "/CropBox"
    ELSE IF p.boxes["/MediaBox"] # NoBox THEN "/MediaBox"
    ELSE ""

\* a read of a box that is there: its value, no other box touched
ReadPresent(p, p1, o) ==
    /\ p1.boxObjects[o.retval.at] = NumbersOf(p, o.name)
    /\ NumbersOf(p1, o.name) = NumbersOf(p, o.name)
    /\ \A m \in BoxNames \ {o.name} : p1.boxes[m] = p.boxes[m]

\* a read of a box that is not there: the value of the first box of the
\* chain, in a new object stored under the name of the box read
ReadAbsent(p, p1, o) ==
    /\ FirstPresent(p, o.name) # ""
    /\ p1.boxObjects[o.retval.at] = NumbersOf(p, FirstPresent(p, o.name))
    /\ p1.boxes[o.name] = o.retval
    /\ p.boxObjects[o.retval.at] = 0
    /\ o.retval.at # p.boxes[FirstPresent(p, o.name)].at
    /\ \A m \in BoxNames \ {o.name} : p1.boxes[m] = p.boxes[m]

\* whatever is done to another box, a box the page has keeps its value
OthersKept(p, p1, o) ==
    \A name \in BoxNames \ {o.name} :
        p.boxes[name] # NoBox =>
            /\ p1.boxes[name] # NoBox
            /\ NumbersOf(p1, name) = NumbersOf(p, name)

\* C20: reading a box the page does not have returns the value of the
\* first box of its fallback chain that the page has (CropBox: MediaBox;
\* BleedBox, TrimBox, ArtBox: CropBox, then MediaBox) and stores a copy
\* under the name of the box read, so that later reads return the same
\* value and a later change of the fallback box does not change it; a box
\* the page has is returned as it is and no other box is created.
C20_BoxFallback ==
    [][/\ (pageOp'.op = "get" /\ ~pageOp'.raised) =>
              IF pageObject.boxes[pageOp'.name] # NoBox
              THEN ReadPresent(pageObject, pageObject', pageOp')
              ELSE ReadAbsent(pageObject, pageObject', pageOp')
        /\ OthersKept(pageObject, pageObject', pageOp')]_vars

\* /BleedBox was read when the page had neither it nor /CropBox, /MediaBox
\* was then changed in place, and /BleedBox was read again
C20_Witness ==
    /\ pageOp # <<>>
    /\ pageOp.op = "get"
    /\ pageOp.name = "/BleedBox"
    /\ pageObject.origin["/BleedBox"] = "/MediaBox"
    /\ pageObject.boxes["/BleedBox"] = pageOp.retval
    /\ pageObject.origin["/MediaBox"] = "file"
    /\ pageObject.boxes["/MediaBox"] # NoBox
    /\ NumbersOf(pageObject, "/BleedBox") # NumbersOf(pageObject, "/MediaBox")

\* ------------------------------------------------------------------------
\* Destination (destination.py) and PdfFileReader._buildDestination
\* ------------------------------------------------------------------------
\* longest destination array: page, type and up to MaxOperands operands
MaxOperands == 4

\* the fit types of table 8.2 of the PDF reference, the spellings without
\* the slash that destination.py compares with, and a name that is none
FitTypes == {"/XYZ", "/Fit", "/FitB", "/FitH", "/FitBH", "/FitV", "/FitBV", "/FitR"}
TypeNames == FitTypes \cup {"FitB", "FitBH", "FitBV", "/Foo"}
DestKeys == {"/Title", "/Page", "/Type", "/Left", "/Top", "/Zoom", "/Bottom",
             "/Right"}
OperandValues == 1..3
DestTitle == "title"
DestPage == "page"

\* the arrays _buildDestination is given
Operands == UNION {[1..n -> OperandValues] : n \in 0..MaxOperands}
DestArrays ==
    {<<>>, <<DestPage>>}
    \cup {<<DestPage, typ>> \o args : typ \in TypeNames, args \in Operands}

\* DictionaryObject(): no key
EmptyDict == [k \in DestKeys |-> <<>>]

\* (self[k1], ..., self[kn]) = args: the tuple is unpacked, then the keys
\* are set from left to right; a tuple of another length is a ValueError
RECURSIVE setKeys(_, _, _)
setKeys(d, ks, args) ==
    IF ks = <<>> THEN d
    ELSE setKeys([d EXCEPT ![Head(ks)] = <<Head(args)>>], Tail(ks), Tail(args))

DestResult(raised, d) == [raised |-> raised, dict |-> d]

unpack(d, ks, args) ==
    IF Len(ks) # Len(args) THEN DestResult("ValueError", EmptyDict)
    ELSE DestResult("", setKeys(d, ks, args))

\* lines 49-61: the branch taken for a type, and the keys it sets
fitKeys(typ) ==
    IF typ = "/XYZ" THEN <<TRUE, <<"/Left", "/Top", "/Zoom">>>>
    ELSE IF typ = "/FitR" THEN <<TRUE, <<"/Left", "/Bottom", "/Right", "/Top">>>>
    ELSE IF typ \in {"/FitH", "FitBH"} THEN <<TRUE, <<"/Top">>>>
    ELSE IF typ \in {"/FitV", "FitBV"} THEN <<TRUE, <<"/Left">>>>
    ELSE IF typ \in {"/Fit", "FitB"} THEN <<TRUE, <<>>>>
    ELSE <<FALSE, <<>>>>

\* Destination.__init__(self, title, page, typ, *args)
Destination(title, page, typ, args) ==
    With([EmptyDict EXCEPT !["/Title"] = <<title>>, !["/Page"] = <<page>>,
                           !["/Type"] = <<typ>>], LAMBDA d :
        IF fitKeys(typ)[1] THEN unpack(d, fitKeys(typ)[2], args)
        ELSE DestResult("PdfReadError", EmptyDict))

\* _buildDestination(self, title, array)
buildDestination(title, array) ==
    IF Len(array) < 2 THEN DestResult("ValueError", EmptyDict)
    ELSE Destination(title, array[1], array[2], SubSeq(array, 3, Len(array)))

\* the reader is about to build the destination of an array of its file
InitDestination ==
    /\ doc = PlainDocument
    /\ decryption_key = <<>>
    /\ override_encryption = FALSE
    /\ resolvedObjects = [id \in ObjIds |-> <<>>]
    /\ flattenedPages = <<>>
    /\ \E array \in DestArrays :
          last = [op |-> "array", array |-> array,
                  res |-> DestResult("", EmptyDict)]
    /\ XrefIdle
    /\ WriterIdle
    /\ PageIdle

BuildDestination ==
    /\ last.op = "array"
    /\ last' = [last EXCEPT !.op = "_buildDestination",
                            !.res = buildDestination(DestTitle, last.array)]
    /\ UNCHANGED <<doc, decryption_key, override_encryption, resolvedObjects,
                   flattenedPages, xrefVars, writerVars, pageVars>>

SpecDestination == InitDestination /\ [][BuildDestination]_vars

\* the operand count and the keys table 8.2 prescribes for a fit type
Prescribed(typ) ==
    IF typ = "/XYZ" THEN <<"/Left", "/Top", "/Zoom">>
    ELSE IF typ = "/FitR" THEN <<"/Left", "/Bottom", "/Right", "/Top">>
    ELSE IF typ \in {"/FitH", "/FitBH"} THEN <<"/Top">>
    ELSE IF typ \in {"/FitV", "/FitBV"} THEN <<"/Left">>
    ELSE <<>>

\* the destination holds title, page, type and the operands under the
\* prescribed keys, and no other key
StoredAsPrescribed(d, array) ==
    /\ d["/Title"] = <<DestTitle>>
    /\ d["/Page"] = <<array[1]>>
    /\ d["/Type"] = <<array[2]>>
    /\ \A i \in 1..Len(Prescribed(array[2])) :
          d[Prescribed(array[2])[i]] = <<array[2 + i]>>
    /\ \A k \in DestKeys \ {"/Title", "/Page", "/Type"} :
          (\A i \in 1..Len(Prescribed(array[2])) : Prescribed(array[2])[i] # k)
              => d[k] = <<>>

Built == last.op = "_buildDestination" /\ Len(last.array) >= 2

\* C21: a destination of one of the eight fit types with the operand count
\* of its type is built without an error, with the operands stored under
\* the keys the type prescribes; any other fit type raises PdfReadError.
C21_FitTypes ==
    Built =>
        /\ (/\ last.array[2] \in FitTypes
            /\ Len(last.array) = 2 + Len(Prescribed(last.array[2])))
              => /\ last.res.raised = ""
                 /\ StoredAsPrescribed(last.res.dict, last.array)
        /\ last.array[2] \notin FitTypes => last.res.raised = "PdfReadError"

\* what the code does: the five types it compares with the right spelling
\* are built as prescribed, /FitB, /FitBH and /FitBV raise PdfReadError,
\* and the names FitB, FitBH and FitBV are taken as fit types
FiveFitTypes ==
    Built =>
        /\ (/\ last.array[2] \in FitTypes \ {"/FitB", "/FitBH", "/FitBV"}
            /\ Len(last.array) = 2 + Len(Prescribed(last.array[2])))
              => /\ last.res.raised = ""
                 /\ StoredAsPrescribed(last.res.dict, last.array)
        /\ last.array[2] \in {"/FitB", "/FitBH", "/FitBV", "/Foo"}
              => last.res.raised = "PdfReadError"
        /\ last.array[2] \in {"FitB", "FitBH", "FitBV"}
              => last.res.raised # "PdfReadError"

\* ------------------------------------------------------------------------
\* PdfFileReader.getOutlines and _buildOutline
\* ------------------------------------------------------------------------
\* number of outline items of a file
MaxOutlineNodes == 3

OutlineIds == 1..MaxOutlineNodes

\* What an outline item holds: /Title or not, /First and /Next (0: none;
\* an item refers to later items only), and its destination, from /Dest or
\* from /D of a GoTo action: none, a destination array, a text string that
\* is the name of a named destination of the file or is not, a text string
\* that is empty, or an object of another type (a number, a byte string).
DestKinds == {"None", "array", "known", "unknown", "empty", "number"}
OutlineNode(title, dest, first, next) ==
    [title |-> title, dest |-> dest, first |-> first, next |-> next]
\* an item without /Title is one with a destination array (its
\* destination is never looked at)
OutlineNodes(i) ==
    {OutlineNode(t, d, f, n) :
        t \in BOOLEAN, d \in DestKinds,
        f \in {0} \cup (i + 1)..MaxOutlineNodes,
        n \in {0} \cup (i + 1)..MaxOutlineNodes}
ItemsAt(i) == {node \in OutlineNodes(i) : ~node.title => node.dest = "array"}
RECURSIVE OutlineTreesFrom(_)
OutlineTreesFrom(i) ==
    IF i > MaxOutlineNodes THEN {<<>>}
    ELSE {<<node>> \o rest : node \in ItemsAt(i), rest \in OutlineTreesFrom(i + 1)}
OutlineTrees == OutlineTreesFrom(1)

\* an entry of the list returned: a Destination with the title of an item,
\* or the list of the items below an item
OutlineEntry(i, from) == [k |-> "dest", node |-> i, from |-> from]
SubOutlines(items) == [k |-> "list", items |-> items]
OutlineResult(raised, outlines, warned) ==
    [raised |-> raised, outlines |-> outlines, warned |-> warned]

\* _buildOutline(node): None, a Destination, or PdfReadError
buildOutline(t, i) ==
    With(IF t[i].title THEN t[i].dest ELSE "None", LAMBDA dest :
        IF dest \in {"None", "empty"} THEN OutlineResult("", <<>>, FALSE)
        ELSE IF dest = "array"
            THEN OutlineResult("", <<OutlineEntry(i, "array")>>, FALSE)
        ELSE IF dest = "known"
            THEN OutlineResult("", <<OutlineEntry(i, "named")>>, FALSE)
        ELSE OutlineResult("PdfReadError", <<>>, FALSE))

\* getOutlines(node, outlines): the loop over an item and its /Next items
RECURSIVE getOutlinesFrom(_, _, _)
getOutlinesFrom(t, i, outlines) ==
    With(buildOutline(t, i), LAMBDA outline :
        IF outline.raised # "" THEN outline
        ELSE With(IF t[i].first # 0 THEN getOutlinesFrom(t, t[i].first, <<>>)
                  ELSE OutlineResult("", <<>>, FALSE), LAMBDA sub :
            IF sub.raised # "" THEN sub
            ELSE With(outlines \o outline.outlines
                        \o (IF sub.outlines # <<>>
                            THEN <<SubOutlines(sub.outlines)>> ELSE <<>>),
                      LAMBDA out :
                IF t[i].next = 0 THEN OutlineResult("", out, FALSE)
                ELSE getOutlinesFrom(t, t[i].next, out))))

\* getOutlines(): item 1 is /First of /Outlines
getOutlines(t) == getOutlinesFrom(t, 1, <<>>)

\* PdfFileReader(stream, strict) of a file with outline items
InitOutlines ==
    /\ doc = PlainDocument
    /\ decryption_key = <<>>
    /\ override_encryption = FALSE
    /\ resolvedObjects = [id \in ObjIds |-> <<>>]
    /\ flattenedPages = <<>>
    /\ \E t \in OutlineTrees :
          last = [op |-> "file", tree |-> t, res |-> OutlineResult("", <<>>, FALSE)]
    /\ sections = <<>>
    /\ startxref = 0
    /\ readDone = TRUE
    /\ xref = [k \in Gens \X XIds |-> <<>>]
    /\ xref_objStm = [num \in XIds |-> <<>>]
    /\ trailer = [k \in TrailerKeys |-> <<>>]
    /\ found = NoFound
    /\ xrefIndex = 0
    /\ strict \in BOOLEAN
    /\ WriterIdle
    /\ PageIdle

GetOutlines ==
    /\ last.op = "file"
    /\ last' = [last EXCEPT !.op = "getOutlines", !.res = getOutlines(last.tree)]
    /\ UNCHANGED <<doc, decryption_key, override_encryption, resolvedObjects,
                   flattenedPages, xrefVars, writerVars, pageVars>>

SpecOutlines == InitOutlines /\ [][GetOutlines]_vars

\* the items getOutlines comes to: item 1, and /First and /Next of each
RECURSIVE Visited(_, _)
Visited(t, i) ==
    {i} \cup (IF t[i].first # 0 THEN Visited(t, t[i].first) ELSE {})
        \cup (IF t[i].next # 0 THEN Visited(t, t[i].next) ELSE {})

\* the destination of the item is there and cannot be resolved
Unresolvable(t, i) == t[i].title /\ t[i].dest \in {"unknown", "number"}

\* the list of the entries of the items that can be resolved
RECURSIVE Remaining(_, _, _)
Remaining(t, i, outlines) ==
    With(outlines
           \o (IF t[i].title /\ t[i].dest \in {"array", "known"}
               THEN <<OutlineEntry(i, IF t[i].dest = "array" THEN "array"
                                       ELSE "named")>>
               ELSE <<>>)
           \o (IF t[i].first # 0 /\ Remaining(t, t[i].first, <<>>) # <<>>
               THEN <<SubOutlines(Remaining(t, t[i].first, <<>>))>>
               ELSE <<>>), LAMBDA out :
        IF t[i].next = 0 THEN out ELSE Remaining(t, t[i].next, out))

SomeUnresolvable(t) == \E i \in Visited(t, 1) : Unresolvable(t, i)

\* C22: when getOutlines comes to an item whose destination cannot be
\* resolved, a strict reader raises PdfReadError; a reader that is not
\* strict warns and returns the entries of the other items.
C22_UnresolvableDestination ==
    (last.op = "getOutlines" /\ SomeUnresolvable(last.tree)) =>
        IF strict THEN last.res.raised = "PdfReadError"
        ELSE /\ last.res.raised = ""
             /\ last.res.warned
             /\ last.res.outlines = Remaining(last.tree, 1, <<>>)

\* what the code does: PdfReadError whether the reader is strict or not,
\* and the list of all entries when every destination can be resolved
UnresolvableRaises ==
    last.op = "getOutlines" =>
        IF SomeUnresolvable(last.tree)
        THEN last.res.raised = "PdfReadError" /\ ~last.res.warned
        ELSE /\ last.res.raised = ""
             /\ last.res.outlines = Remaining(last.tree, 1, <<>>)

\* ------------------------------------------------------------------------
\* PdfFileReader.decrypt: security handlers that are not supported
\* ------------------------------------------------------------------------
\* largest /V of an /Encrypt dictionary
MaxV == 4

EncryptFilters == {"/Standard", "/Custom"}

\* encrypted files whose /Encrypt dictionary names any filter and any /V
InitHandlers ==
    /\ \E owner \in {<<1>>, <<2>>}, use_128bit \in BOOLEAN,
          filter \in EncryptFilters, V \in 0..MaxV :
          doc = [Document(TRUE, encrypt(<<1>>, owner, use_128bit), <<1>>, owner,
                          OnePage, FlatType, FlatParent, FlatAttrs, 1)
                    EXCEPT !.filter = filter, !.V = V]
    /\ ReaderInit
    /\ XrefIdle
    /\ PageIdle
    /\ WriterIdle

HandlersNext ==
    \/ \E password \in Passwords : Decrypt(password)
    \/ GetNumPages
    \/ \E idnum \in ObjIds : GetObject(idnum)

SpecHandlers == InitHandlers /\ [][HandlersNext]_vars

Unsupported == doc.filter # "/Standard" \/ doc.V \notin {1, 2}

\* C23: decrypt of a file whose /Filter is not /Standard or whose /V is
\* not 1 or 2 raises (NotImplementedError is the one error decrypt can
\* raise for these files); the decryption key is what it was before the
\* call, and _override_encryption is False when the error leaves decrypt.
C23_UnsupportedHandler ==
    [][(last'.op = "decrypt" /\ Unsupported) =>
          /\ last'.raised
          /\ last'.code = 0
          /\ decryption_key' = decryption_key
          /\ decryption_key' = <<>>
          /\ ~override_encryption']_vars

\* decrypt raised for /V 3 with the right password, after getNumPages had
\* read the page tree under _override_encryption
C23_Witness ==
    /\ last.op = "decrypt"
    /\ last.raised
    /\ last.pwd = doc.userPwd
    /\ doc.filter = "/Standard"
    /\ doc.V = 3
    /\ resolvedObjects[PagesId] # <<>>

\* the same for a filter that is not /Standard, /V being 1
FilterWitness ==
    /\ last.op = "decrypt"
    /\ last.raised
    /\ doc.filter = "/Custom"
    /\ doc.V = 1

\* ------------------------------------------------------------------------
\* addBlankPage and insertBlankPage without a size
\* ------------------------------------------------------------------------
\* the last operation made a blank page and was given no width or no height
BlankWithoutSize(op) ==
    log.op = op /\ (log.size[1] = 0 \/ log.size[2] = 0)

\* /Kids had no page at the index given (an index below 0 counts from the
\* end, as in getPage)
NoPageAt(index) ==
    ~(index < Len(log.before) /\ index >= 0 - Len(log.before))

\* the object vector and the page tree are what they were
WriterKept ==
    /\ objects = log.objects
    /\ KidAddrs(WS) = log.before
    /\ Count(WS) = Len(log.before)

SizeNotDefined ==
    /\ log.raised
    /\ log.error = "PageSizeNotDefinedError"
    /\ WriterKept

\* C24: addBlankPage without a width or a height on a writer without pages,
\* and insertBlankPage without a width or a height on a writer without a
\* page at the index, raise PageSizeNotDefinedError and leave the object
\* vector and the page tree as they were.
C24_SizeNotDefined ==
    /\ (BlankWithoutSize("addBlankPage") /\ log.before = <<>>) => SizeNotDefined
    /\ (BlankWithoutSize("insertBlankPage") /\ NoPageAt(log.index))
          => SizeNotDefined

\* what the code does: addBlankPage as claimed; insertBlankPage without a
\* width, or without a height and with an index below the number of pages,
\* raises IndexError when there is no page at the index; with a width,
\* without a height and with an index from the number of pages on it
\* raises PageSizeNotDefinedError on a writer without pages and otherwise
\* inserts a page of the size of the last page; an operation that raises
\* leaves the writer as it was
BlankPageErrors ==
    /\ (BlankWithoutSize("addBlankPage") /\ log.before = <<>>) => SizeNotDefined
    /\ (BlankWithoutSize("insertBlankPage") /\ NoPageAt(log.index)) =>
          IF log.size[1] = 0 \/ Len(log.before) - 1 >= log.index
          THEN log.raised /\ log.error = "IndexError" /\ WriterKept
          ELSE IF log.before = <<>> THEN SizeNotDefined
          ELSE ~log.raised /\ Len(Kids(WS)) = Len(log.before) + 1
    /\ log.raised => WriterKept

\* ------------------------------------------------------------------------
\* PageObject.scale and scaleTo
\* ------------------------------------------------------------------------
\* largest coordinate of a /MediaBox of a file, largest width or height a
\* page is scaled to, and number of scaleTo calls followed
MaxCoord == 3
MaxSize == 2
MaxScales == 2

\* Numbers are fractions <<numerator, denominator>>; the arithmetic of
\* Decimal and float is taken as exact.
Frac(n) == <<n, 1>>
FracMul(a, b) == <<a[1] * b[1], a[2] * b[2]>>
FracSub(a, b) == <<a[1] * b[2] - b[1] * a[2], a[2] * b[2]>>
FracDiv(a, b) == <<a[1] * b[2], a[2] * b[1]>>
FracEq(a, b) == a[1] * b[2] = b[1] * a[2]
IsZero(a) == a[1] = 0

\* RectangleObject([llx, lly, urx, ury]) and its accessors
RectangleObject(llx, lly, urx, ury) == <<llx, lly, urx, ury>>
getLowerLeft_x(r) == r[1]
getLowerLeft_y(r) == r[2]
getUpperRight_x(r) == r[3]
getUpperRight_y(r) == r[4]
getWidth(r) == FracSub(getUpperRight_x(r), getLowerLeft_x(r))
getHeight(r) == FracSub(getUpperRight_y(r), getLowerLeft_y(r))

\* a page with /MediaBox and with /Contents, as the operations of its
\* content stream, or without
ScalePage(contents, mediaBox) == [contents |-> contents, mediaBox |-> mediaBox]
NoOperations == [present |-> FALSE, operations |-> <<>>]
Operations(operations) == [present |-> TRUE, operations |-> operations]

\* addTransformation(ctm): nothing for a page without /Contents; the
\* matrix is put first, then q and Q around the whole
addTransformation(self, ctm) ==
    IF ~self.contents.present THEN self
    ELSE [self EXCEPT !.contents =
             Operations(<<q, cm(ctm)>> \o self.contents.operations \o <<Q>>)]

\* scale(sx, sy)
scale(self, sx, sy) ==
    [addTransformation(self, <<sx, Frac(0), Frac(0), sy, Frac(0), Frac(0)>>)
        EXCEPT !.mediaBox = RectangleObject(
            FracMul(getLowerLeft_x(self.mediaBox), sx),
            FracMul(getLowerLeft_y(self.mediaBox), sy),
            FracMul(getUpperRight_x(self.mediaBox), sx),
            FracMul(getUpperRight_y(self.mediaBox), sy))]

\* the divisor of sy in scaleTo (lines 558-559)
syDivisor(mediaBox) ==
    FracSub(getUpperRight_y(mediaBox), getLowerLeft_x(mediaBox))

ScaleResult(page, raised) == [page |-> page, raised |-> raised]

\* scaleTo(width, height)
scaleTo(self, width, height) ==
    IF IsZero(getWidth(self.mediaBox)) \/ IsZero(syDivisor(self.mediaBox))
    THEN ScaleResult(self, "ZeroDivisionError")
    ELSE ScaleResult(scale(self, FracDiv(width, getWidth(self.mediaBox)),
                           FracDiv(height, syDivisor(self.mediaBox))), "")

\* the boxes of a file: whole coordinates, positive extent
FileBoxes ==
    {RectangleObject(Frac(llx), Frac(lly), Frac(urx), Frac(ury)) :
        llx \in 0..MaxCoord, lly \in 0..MaxCoord,
        urx \in 0..MaxCoord, ury \in 0..MaxCoord}
PositiveBoxes ==
    {r \in FileBoxes : r[1][1] < r[3][1] /\ r[2][1] < r[4][1]}

ScaleOp(width, height, before, raised, n) ==
    [op |-> "scaleTo", width |-> width, height |-> height, before |-> before,
     raised |-> raised, n |-> n]

InitScale ==
    /\ doc = PlainDocument
    /\ ReaderInit
    /\ XrefIdle
    /\ WriterIdle
    /\ \E contents \in {NoOperations, Operations(<<Operation(<<>>, <<"a">>)>>)},
          mediaBox \in PositiveBoxes :
          pageObject = ScalePage(contents, mediaBox)
    /\ pageOp = <<>>

Scales == IF pageOp = <<>> THEN 0 ELSE pageOp.n

ScaleTo(width, height) ==
    /\ Scales < MaxScales
    /\ \E r \in {scaleTo(pageObject, Frac(width), Frac(height))} :
          /\ pageObject' = r.page
          /\ pageOp' = ScaleOp(Frac(width), Frac(height), pageObject.mediaBox,
                               r.raised, Scales + 1)
    /\ UNCHANGED <<readerVars, xrefVars, writerVars>>

ScaleNext == \E width \in 1..MaxSize, height \in 1..MaxSize : ScaleTo(width, height)

SpecScale == InitScale /\ [][ScaleNext]_vars

\* the box had positive extent before the call
PositiveBefore ==
    /\ getWidth(pageOp.before)[1] * getWidth(pageOp.before)[2] > 0
    /\ getHeight(pageOp.before)[1] * getHeight(pageOp.before)[2] > 0

\* C25: scaleTo(width, height) on a page whose /MediaBox has positive
\* extent leaves a /MediaBox of that width and that height, wherever the
\* lower-left corner of the box is.
C25_ScaleTo ==
    (pageOp # <<>> /\ PositiveBefore) =>
        /\ pageOp.raised = ""
        /\ FracEq(getWidth(pageObject.mediaBox), pageOp.width)
        /\ FracEq(getHeight(pageObject.mediaBox), pageOp.height)

\* what the code does: the width is as asked for; the height is as asked
\* for when the lower-left corner has x = y, and is height * (ury - lly) /
\* (ury - llx) otherwise; the call raises when ury = llx
ScaleToWithX ==
    (pageOp # <<>> /\ PositiveBefore) =>
        IF FracEq(getUpperRight_y(pageOp.before), getLowerLeft_x(pageOp.before))
        THEN pageOp.raised = "ZeroDivisionError"
        ELSE /\ pageOp.raised = ""
             /\ FracEq(getWidth(pageObject.mediaBox), pageOp.width)
             /\ FracEq(getHeight(pageObject.mediaBox),
                       FracDiv(FracMul(pageOp.height, getHeight(pageOp.before)),
                               syDivisor(pageOp.before)))
             /\ FracEq(getLowerLeft_x(pageOp.before), getLowerLeft_y(pageOp.before))
                   => FracEq(getHeight(pageObject.mediaBox), pageOp.height)

\* ------------------------------------------------------------------------
\* PageObject._mergePage: names of several resource categories in the
\* other page's content
\* ------------------------------------------------------------------------
\* two of the seven categories of line 323, and the operator whose name
\* operand is looked up in each
CategoryNames == {"/Font", "/XObject"}
OperatorOf(c) == IF c = "/Font" THEN "Tf" ELSE "Do"
CategoryOf(operator) == IF operator = "Tf" THEN "/Font" ELSE "/XObject"

\* a name operand
NameObject(key) == [name |-> key]

\* the operations of a page that uses every resource it has once: /F Tf
\* for a font, /F Do for an XObject
RECURSIVE UsesOf(_, _)
UsesOf(c, ks) ==
    IF ks = {} THEN <<>>
    ELSE With(CHOOSE k \in ks : \A j \in ks : k <= j, LAMBDA k :
            <<Operation(<<NameObject(k)>>, OperatorOf(c))>> \o UsesOf(c, ks \ {k}))
UsesAll(resources) ==
    UsesOf("/Font", keys(resources["/Font"]))
    \o UsesOf("/XObject", keys(resources["/XObject"]))

\* a page: its /Resources, category by category, and the operations of
\* its content stream
NamedPage(resources, operations) ==
    [resources |-> resources, operations |-> operations]
NamedPages ==
    {NamedPage(r, UsesAll(r)) : r \in [CategoryNames -> Categories]}

\* rename.get(op, op) for the name operands of an operation; the table
\* maps each key renamed, in whatever category, to key + "renamed"
renameOperands(operation, rename) ==
    [operation EXCEPT !.operands =
        [i \in 1..Len(operation.operands) |->
            IF operation.operands[i].name \in rename
            THEN NameObject(Renamed(operation.operands[i].name))
            ELSE operation.operands[i]]]

\* _contentStreamRename(stream, rename, pdf) on the operations of a stream
contentStreamRenameAll(operations, rename) ==
    IF rename = {} THEN operations
    ELSE [i \in 1..Len(operations) |-> renameOperands(operations[i], rename)]

\* _mergePage(page2): the categories are merged one by one, the names
\* renamed in any of them go into one table, the other page's content is
\* renamed with it, and both contents are put between q and Q
_mergePage(self, page2, orders) ==
    With([c \in CategoryNames |->
             mergeResources(self.resources[c], {}, page2.resources[c], orders[c])],
         LAMBDA m :
    With(UNION {m[c].rename : c \in CategoryNames}, LAMBDA rename :
    With(contentStreamRenameAll(page2.operations, rename), LAMBDA page2Content :
        [page |-> NamedPage([c \in CategoryNames |-> m[c].new],
                            <<q>> \o self.operations \o <<Q>> \o
                            <<q>> \o page2Content \o <<Q>>),
         rename |-> rename,
         page2Content |-> page2Content])))

InitNames ==
    /\ doc = PlainDocument
    /\ ReaderInit
    /\ XrefIdle
    /\ WriterIdle
    /\ pageObject \in NamedPages
    /\ pageOp = <<>>

\* pageObject.mergePage(page2), the keys of each category of the other
\* page taken in any order
MergeNamedPage(page2) ==
    /\ pageOp = <<>>
    /\ \E oF \in Orders(keys(page2.resources["/Font"])),
          oX \in Orders(keys(page2.resources["/XObject"])) :
          \E m \in {_mergePage(pageObject, page2,
                               [c \in CategoryNames |->
                                   IF c = "/Font" THEN oF ELSE oX])} :
             /\ pageObject' = m.page
             /\ pageOp' = [op |-> "mergePage", page2 |-> page2,
                           before |-> pageObject, rename |-> m.rename,
                           page2Content |-> m.page2Content]
    /\ UNCHANGED <<readerVars, xrefVars, writerVars>>

NamesNext == \E page2 \in NamedPages : MergeNamedPage(page2)

SpecNames == InitNames /\ [][NamesNext]_vars

\* the i-th operation of the other page's part of the merged content
\* looks its name up in the merged category and finds what the name it had
\* in the other page's content denoted in the other page's category
SameDenotation(i) ==
    With(CategoryOf(pageOp.page2.operations[i].operator), LAMBDA c :
        pageObject.resources[c][pageOp.page2Content[i].operands[1].name]
            = pageOp.page2.resources[c][pageOp.page2.operations[i].operands[1].name])

\* C26: after mergePage every name operand of the other page's part of the
\* merged content denotes, in the merged category in which it is looked
\* up, the value it denoted in the other page's resources.
C26_NamesDenoteTheSame ==
    pageOp # <<>> =>
        /\ Len(pageOp.page2Content) = Len(pageOp.page2.operations)
        /\ \A i \in 1..Len(pageOp.page2Content) : SameDenotation(i)

\* the other page binds each name in one category at most
OneCategoryPerName(p) ==
    keys(p.resources["/Font"]) \cap keys(p.resources["/XObject"]) = {}

\* no name of the page ends in "renamed"
PlainNames(p) ==
    \A c \in CategoryNames : \A k \in keys(p.resources[c]) : k = 0

\* what holds: the names denote the same when the other page binds each
\* name in one category only and neither page has a name that ends in
\* "renamed"
NamesOfOneCategory ==
    (/\ pageOp # <<>>
     /\ OneCategoryPerName(pageOp.page2)
     /\ PlainNames(pageOp.page2)
     /\ PlainNames(pageOp.before))
        => \A i \in 1..Len(pageOp.page2Content) : SameDenotation(i)

\* a merge of that kind in which a name was renamed
RenamedOneCategory ==
    /\ pageOp # <<>>
    /\ OneCategoryPerName(pageOp.page2)
    /\ PlainNames(pageOp.page2)
    /\ PlainNames(pageOp.before)
    /\ pageOp.rename # {}

\* ------------------------------------------------------------------------
\* ContentStream.__parseContentStream and _readInlineImage, loop by loop
\* ------------------------------------------------------------------------
\* longest data of an inline image and longest text of a comment in the
\* streams parsed, and the length up to which the data read is recorded
MaxImageData == 3
MaxComment == 2
MaxImage == 6

\* The characters of the streams parsed: letters, white space, the digit
\* 1, the name /W (taken as one character) and %.
AlphaChars == {"B", "I", "D", "E", "x", "q"}
DelimiterChars == {"/W", "%"}
ObjectChars == {"1", "/W"}
Newlines == {"\n"}

\* the strings of up to n characters of S
RECURSIVE StringsOver(_, _)
StringsOver(S, n) ==
    IF n = 0 THEN {<<>>}
    ELSE StringsOver(S, n - 1) \cup
         {Append(t, c) : t \in {x \in StringsOver(S, n - 1) : Len(x) = n - 1},
                         c \in S}

\* streams with one inline image: something before it or not, settings or
\* not, ID, the data, and the end marker (or none), followed by white
\* space, an operator or the end of the stream
ImageStreams ==
    {before \o <<"B", "I", " ">> \o settings \o <<"I", "D", " ">> \o data \o after :
        before \in {<<>>, <<"q", " ">>, <<"1", " ">>},
        settings \in {<<>>, <<"/W", " ", "1", " ">>},
        data \in StringsOver({"E", "I", "x", " "}, MaxImageData),
        after \in {<<>>, <<" ", "E", "I">>, <<" ", "E", "I", " ">>,
                   <<" ", "E", "I", "\n", "q">>}}

\* streams with a comment: something before it or not, the text, and an
\* end of line (or none) followed by operations or the end of the stream
CommentStreams ==
    {before \o <<"%">> \o text \o after :
        before \in {<<>>, <<"q", " ">>, <<"1", " ">>},
        text \in StringsOver({"x", " "}, MaxComment),
        after \in {<<>>, <<"\n">>, <<"\n", "q">>, <<"\n", "1", " ", "q">>}}

\* The parser: the data of the stream, the position in it, the loop it is
\* in, the locals of __parseContentStream (operands, operator, peek) and
\* of _readInlineImage (settings, data), and self.operations.
Parser(data) ==
    [data |-> data, pos |-> 0, mode |-> "top", operands |-> <<>>,
     operator |-> <<>>, peek |-> "", settings |-> <<>>, image |-> <<>>,
     operations |-> <<>>, error |-> ""]

\* stream.read(1): "" at the end of the stream
read1(p) ==
    IF p.pos < Len(p.data) THEN [tok |-> p.data[p.pos + 1], pos |-> p.pos + 1]
    ELSE [tok |-> "", pos |-> p.pos]

\* utils.readNonWhitespace(stream): the first character that is not white
\* space, "" at the end of the stream
RECURSIVE readNonWhitespace(_, _)
readNonWhitespace(data, pos) ==
    IF pos >= Len(data) THEN [tok |-> "", pos |-> pos]
    ELSE IF data[pos + 1] \in Whitespace THEN readNonWhitespace(data, pos + 1)
    ELSE [tok |-> data[pos + 1], pos |-> pos + 1]

\* stream.seek(-1, 1)
seekBack(pos) == IF pos > 0 THEN pos - 1 ELSE 0

\* generic.readObject(stream, pdf) for a number or a name
readObject(data, pos) ==
    IF pos < Len(data) /\ data[pos + 1] \in ObjectChars
    THEN [ok |-> TRUE, obj |-> data[pos + 1], pos |-> pos + 1]
    ELSE [ok |-> FALSE, obj |-> "", pos |-> pos]

\* an exception leaves the parser
parseRaise(p, error) == [p EXCEPT !.mode = "raised", !.error = error]

\* the inline image as an operation
InlineImage(settings, data) ==
    Operation([settings |-> settings, data |-> data], <<"INLINE IMAGE">>)

\* one pass of the loop of __parseContentStream up to the inner loops
parseTop(p) ==
    With(readNonWhitespace(p.data, p.pos), LAMBDA r :
        IF r.tok = "" THEN [p EXCEPT !.pos = r.pos, !.mode = "done"]
        ELSE IF r.tok \in AlphaChars
            THEN [p EXCEPT !.pos = seekBack(r.pos), !.mode = "operator",
                           !.operator = <<>>, !.peek = r.tok]
        ELSE IF r.tok = "%"
            THEN [p EXCEPT !.pos = seekBack(r.pos), !.mode = "comment",
                           !.peek = r.tok]
        ELSE With(readObject(p.data, seekBack(r.pos)), LAMBDA o :
            IF ~o.ok THEN parseRaise(p, "PdfReadError")
            ELSE [p EXCEPT !.pos = o.pos, !.peek = r.tok,
                           !.operands = Append(@, o.obj)]))

\* lines 76-84: the operator is complete
endOperator(p) ==
    IF p.operator = <<"B", "I">> THEN
        IF p.operands # <<>> THEN parseRaise(p, "AssertionError")
        ELSE [p EXCEPT !.mode = "settings", !.settings = <<>>]
    ELSE [p EXCEPT !.mode = "top", !.operands = <<>>,
                   !.operations = Append(@, Operation(p.operands, p.operator))]

\* one pass of the loop of lines 69-75
readOperator(p) ==
    With(read1(p), LAMBDA r :
        IF r.tok \in Whitespace \cup DelimiterChars
            THEN endOperator([p EXCEPT !.pos = seekBack(r.pos)])
        ELSE IF r.tok = "" THEN endOperator([p EXCEPT !.pos = r.pos])
        ELSE [p EXCEPT !.pos = r.pos, !.operator = Append(@, r.tok)])

\* one pass of the loop of lines 91-92
skipComment(p) ==
    IF p.peek \in Newlines THEN [p EXCEPT !.mode = "top"]
    ELSE With(read1(p), LAMBDA r : [p EXCEPT !.pos = r.pos, !.peek = r.tok])

\* settings[key] = value
setItem(settings, key, value) ==
    IF \E i \in 1..Len(settings) : settings[i][1] = key
    THEN [i \in 1..Len(settings) |->
             IF settings[i][1] = key THEN <<key, value>> ELSE settings[i]]
    ELSE Append(settings, <<key, value>>)

\* lines 112-115: tmp = stream.read(3); assert tmp[:2] == "ID"
beginData(p) ==
    IF SubSeq(p.data, p.pos + 1, p.pos + 2) # <<"I", "D">>
    THEN parseRaise(p, "AssertionError")
    ELSE [p EXCEPT !.pos = IF p.pos + 3 > Len(p.data) THEN Len(p.data)
                             ELSE p.pos + 3,
                   !.mode = "data", !.image = <<>>]

\* one pass of the loop of lines 102-111
readSettings(p) ==
    With(readNonWhitespace(p.data, p.pos), LAMBDA r :
        IF r.tok = "I" THEN beginData([p EXCEPT !.pos = seekBack(r.pos)])
        ELSE With(readObject(p.data, seekBack(r.pos)), LAMBDA key :
            IF ~key.ok THEN parseRaise(p, "PdfReadError")
            ELSE With(readNonWhitespace(p.data, key.pos), LAMBDA r2 :
                 With(readObject(p.data, seekBack(r2.pos)), LAMBDA value :
                    IF ~value.ok THEN parseRaise(p, "PdfReadError")
                    ELSE [p EXCEPT !.pos = value.pos,
                                   !.settings = setItem(@, key.obj, value.obj)]))))

\* data += tok; the data is recorded up to MaxImage characters
addData(image, tok) ==
    IF tok = "" \/ Len(image) >= MaxImage THEN image ELSE Append(image, tok)

\* lines 127-129 and 83: the image is complete
endImage(p) ==
    With(readNonWhitespace(p.data, p.pos), LAMBDA r :
        [p EXCEPT !.pos = seekBack(r.pos), !.mode = "top",
                  !.operations = Append(@, InlineImage(p.settings, p.image))])

\* one pass of the loop of lines 116-126
readData(p) ==
    With(read1(p), LAMBDA r :
        IF r.tok = "E" THEN
            With(read1([p EXCEPT !.pos = r.pos]), LAMBDA next :
                IF next.tok = "I" THEN endImage([p EXCEPT !.pos = next.pos])
                ELSE [p EXCEPT !.pos = seekBack(next.pos),
                               !.image = addData(@, r.tok)])
        ELSE [p EXCEPT !.pos = r.pos, !.image = addData(@, r.tok)])

\* ContentStream(stream, pdf) of a stream with an image or a comment
InitParse ==
    /\ doc = PlainDocument
    /\ ReaderInit
    /\ XrefIdle
    /\ WriterIdle
    /\ \E data \in ImageStreams \cup CommentStreams :
          pageObject = Parser(data)
    /\ pageOp = <<>>

ParseStep(mode, next) ==
    /\ pageObject.mode = mode
    /\ pageObject' = next
    /\ pageOp' = [op |-> mode]
    /\ UNCHANGED <<readerVars, xrefVars, writerVars>>

ParseTop == ParseStep("top", parseTop(pageObject))
ReadOperator == ParseStep("operator", readOperator(pageObject))
SkipComment == ParseStep("comment", skipComment(pageObject))
ReadSettings == ParseStep("settings", readSettings(pageObject))
ReadData == ParseStep("data", readData(pageObject))

ParseNext ==
    \/ ParseTop
    \/ ReadOperator
    \/ SkipComment
    \/ ReadSettings
    \/ ReadData

\* the interpreter goes on running the loop it is in
SpecParse == InitParse /\ [][ParseNext]_vars /\ WF_vars(ParseNext)

\* the stream has an inline image that the parser comes to with no operand
\* pending: the first B begins BI, and no number precedes it
HasImage(s) == \E i \in 1..Len(s) : s[i] = "B" /\ \A j \in 1..(i - 1) : s[j] # "1"

\* the first character of the data of the image: ID and one white space
\* precede it
DataStart(s) == (CHOOSE i \in 1..Len(s) : s[i] = "D" /\ \A j \in 1..(i - 1) : s[j] # "D") + 2

\* EI at position i, at or after the beginning of the data
PairAt(s, i) == i >= DataStart(s) /\ i < Len(s) /\ s[i] = "E" /\ s[i + 1] = "I"

\* the pair is delimited by white space: white space before it, white
\* space or the end of the stream after it
MarkerAt(s, i) ==
    /\ PairAt(s, i)
    /\ s[i - 1] \in Whitespace
    /\ (i + 2 > Len(s) \/ s[i + 2] \in Whitespace)

HasMarker(s) == \E i \in 1..Len(s) : MarkerAt(s, i)
FirstMarker(s) ==
    CHOOSE i \in 1..Len(s) : MarkerAt(s, i) /\ \A j \in 1..(i - 1) : ~MarkerAt(s, j)
FirstPair(s) ==
    CHOOSE i \in 1..Len(s) : PairAt(s, i) /\ \A j \in 1..(i - 1) : ~PairAt(s, j)

\* the data from its beginning up to position i, the white space before
\* the marker taken as part of it or not
DataUpTo(s, i) ==
    {SubSeq(s, DataStart(s), i - 1)} \cup
    (IF i - 1 >= DataStart(s) THEN {SubSeq(s, DataStart(s), i - 2)} ELSE {})

\* the settings between BI and ID
SettingsOf(s) ==
    IF \E i \in 1..Len(s) : s[i] = "/W" THEN <<<<"/W", "1">>>> ELSE <<>>

ImagesOf(operations) ==
    {i \in 1..Len(operations) : operations[i].operator = <<"INLINE IMAGE">>}

\* the operations hold one inline image, with the settings of the stream
\* and the data up to position i
OneImageUpTo(p, i) ==
    /\ Cardinality(ImagesOf(p.operations)) = 1
    /\ \A k \in ImagesOf(p.operations) :
          /\ p.operations[k].operands.settings = SettingsOf(p.data)
          /\ p.operations[k].operands.data \in DataUpTo(p.data, i)

Parsed == pageObject.mode = "done" /\ HasImage(pageObject.data)

\* C27: the data of an inline image runs up to the EI that white space
\* delimits; EI inside the data does not end the image, and BI ... ID ...
\* EI gives one inline-image record with its settings and all its data.
C27_InlineImage ==
    (Parsed /\ HasMarker(pageObject.data)) =>
        OneImageUpTo(pageObject, FirstMarker(pageObject.data))

\* what the code does: the data ends at the first E that an I follows,
\* whatever is around them
ImageUpToFirstPair ==
    Parsed => OneImageUpTo(pageObject, FirstPair(pageObject.data))

\* an image whose data holds E and I, but no EI before the marker, was
\* read to its end
ImageWithoutPair ==
    /\ Parsed
    /\ HasMarker(pageObject.data)
    /\ FirstMarker(pageObject.data) = FirstPair(pageObject.data)
    /\ FirstMarker(pageObject.data) = DataStart(pageObject.data) + MaxImageData + 1
    /\ \E i \in 1..Len(pageObject.operations) :
          /\ pageObject.operations[i].operator = <<"INLINE IMAGE">>
          /\ Len(pageObject.operations[i].operands.data) = MaxImageData + 1
          /\ pageObject.operations[i].operands.data[1] = "I"
          /\ pageObject.operations[i].operands.data[2] = "E"

\* the parser has returned or raised
Finished == pageObject.mode \in {"done", "raised"}

\* C30: parsing a content stream comes to an end for every stream, one
\* that ends in a comment without an end of line and one whose inline image
\* has no EI included.
C30_ParseTerminates == <>Finished

\* every comment of the stream has an end of line after it, and the data
\* of its inline image holds an E that an I follows
Closed(s) ==
    /\ \A i \in 1..Len(s) : s[i] = "%" => \E j \in (i + 1)..Len(s) : s[j] \in Newlines
    /\ (\E i \in 1..Len(s) : s[i] = "B") => \E i \in 1..Len(s) : PairAt(s, i)

\* what the code does: the parser comes to an end for the streams whose
\* comments and images are closed; for every other stream it reads the end
\* of the stream again and again
ClosedTerminates == Closed(pageObject.data) => <>Finished
OpenLoops == ~Closed(pageObject.data) => [](~Finished \/ pageObject.mode = "raised")

\* ------------------------------------------------------------------------
\* Two writers and the pages of one reader
\* ------------------------------------------------------------------------
\* pages added to one writer at most
MaxAdditions == 3

\* the two PdfFileWriter objects
Writers == {"w", "w2"}

\* the addresses of the dictionaries a writer makes in __init__
AddrOf(self, a) == IF self = "w" THEN a ELSE a + 10
WriterAddrs == {AddrOf(self, a) : self \in Writers, a \in {PagesAddr, InfoAddr, RootAddr}}

\* self._objects after __init__
ObjectsOf(self) ==
    <<DictionaryObject(AddrOf(self, PagesAddr)),
      DictionaryObject(AddrOf(self, InfoAddr)),
      DictionaryObject(AddrOf(self, RootAddr))>>

\* self._pages
pagesOf(self) == IndirectObject(1, self)

\* /Kids and /Count of the page-tree root of a writer
KidsIn(h, self) == Tail(h[AddrOf(self, PagesAddr)])
CountIn(h, self) == h[AddrOf(self, PagesAddr)][1].id

\* _addPage(page, action) of the writer self, with action the insertion at
\* index: the page object is the one the reader gave out, whoever holds it
addPageTo(ws, self, pid, index) ==
    [ws EXCEPT !.heap[PageAddr(pid)][1] = pagesOf(self),
               !.objects[self] = Append(@, DictionaryObject(PageAddr(pid))),
               !.heap[AddrOf(self, PagesAddr)] =
                   <<NumberObject(CountIn(ws.heap, self) + 1)>> \o
                   InsertAt(KidsIn(ws.heap, self), index,
                            IndirectObject(Len(ws.objects[self]) + 1, self))]

\* two writers just made, and the pages of a reader
InitWriters ==
    /\ doc = PlainDocument
    /\ ReaderInit
    /\ XrefIdle
    /\ PageIdle
    /\ heap = [a \in {PageAddr(p) : p \in ReaderPageIds} \cup WriterAddrs |->
                  IF a = PageAddr(StreamPageId) THEN
                      <<IndirectObject(ReaderPagesId, "r"), StreamObject>>
                  ELSE IF a \in {PageAddr(p) : p \in ReaderPageIds} THEN
                      <<IndirectObject(ReaderPagesId, "r")>>
                  ELSE IF a \in {AddrOf(self, RootAddr) : self \in Writers} THEN
                      <<IndirectObject(1, IF a = RootAddr THEN "w" ELSE "w2")>>
                  ELSE <<NumberObject(0)>>]
    /\ objects = [self \in Writers |-> ObjectsOf(self)]
    /\ externalReferenceMap = [f \in ForeignIds |-> 0]
    /\ stack = <<>>
    /\ frames = <<>>
    /\ ctl = NoCtl
    /\ stream = <<>>
    /\ encryption = NoEncryption
    /\ log = NoLog

ApplyWriters(ws) ==
    /\ heap' = ws.heap
    /\ objects' = ws.objects
    /\ UNCHANGED <<readerVars, xrefVars, pageVars, externalReferenceMap, stack,
                   frames, ctl, stream, encryption, log>>

CanAdd(self) == Len(objects[self]) < 3 + MaxAdditions

\* self.addPage(reader.getPage(..))
AddPageTo(self, pid) ==
    /\ CanAdd(self)
    /\ ApplyWriters(addPageTo([heap |-> heap, objects |-> objects], self, pid,
                              Len(KidsIn(heap, self))))

\* self.insertPage(reader.getPage(..), index)
InsertPageTo(self, pid, index) ==
    /\ CanAdd(self)
    /\ ApplyWriters(addPageTo([heap |-> heap, objects |-> objects], self, pid,
                              index))

WritersNext ==
    \/ \E self \in Writers, pid \in ReaderPageIds : AddPageTo(self, pid)
    \/ \E self \in Writers, pid \in ReaderPageIds : InsertPageTo(self, pid, 0)

SpecWriters == InitWriters /\ [][WritersNext]_vars

\* the page objects listed in /Kids of a writer, and their /Parent
KidPages(self) ==
    {objects[self][KidsIn(heap, self)[i].id].id :
        i \in 1..Len(KidsIn(heap, self))}
ParentOf(a) == heap[a][1]

\* C28: after any sequence of page additions, the same page object added
\* to a second writer included, each page listed in /Kids of a writer has
\* a /Parent that refers to the page-tree root of that writer.
C28_ParentIsOwnRoot ==
    \A self \in Writers : \A a \in KidPages(self) : ParentOf(a) = pagesOf(self)

\* what the code does: the /Parent of a page refers to the root of one of
\* the writers that list it, and to that of its writer if only one does
ParentIsARoot ==
    \A self \in Writers : \A a \in KidPages(self) :
        /\ \E other \in Writers :
              a \in KidPages(other) /\ ParentOf(a) = pagesOf(other)
        /\ (\A other \in Writers \ {self} : a \notin KidPages(other))
              => ParentOf(a) = pagesOf(self)

\* the root of each writer lists its pages: /Count is the length of /Kids,
\* and every kid refers to a page in the object vector of the writer
RootsListPages ==
    \A self \in Writers :
        /\ CountIn(heap, self) = Len(KidsIn(heap, self))
        /\ Len(objects[self]) = 3 + CountIn(heap, self)
        /\ \A i \in 1..Len(KidsIn(heap, self)) :
              /\ KidsIn(heap, self)[i].pdf = self
              /\ KidsIn(heap, self)[i].id \in 4..Len(objects[self])

\* a page object listed by both writers
SharedPage ==
    \E a \in KidPages("w") : a \in KidPages("w2") /\ ParentOf(a) = pagesOf("w2")

\* ------------------------------------------------------------------------
\* write() and the objects of the source reader
\* ------------------------------------------------------------------------
\* the objects the reader holds: its cache, by id, and the pages it made
SourceAddrs == Addrs \ {PagesAddr, InfoAddr, RootAddr}

\* the values of a page besides the /Parent that addPage sets
ApartFromParent(a, fields) ==
    IF a > 10 /\ fields # <<>> THEN Tail(fields) ELSE fields

\* the object at address a holds what it held when the reader gave it out
SourceKept(a) ==
    ApartFromParent(a, heap[a]) = ApartFromParent(a, HeapOf(log.edges)[a])

\* C29: after write(), every object of the source reader's cache and every
\* page obtained from the reader holds the same values and the same
\* references, owned by the reader, as before, apart from the /Parent that
\* addPage set.
C29_SourceUnchanged ==
    ctl.phase = "written" => \A a \in SourceAddrs : SourceKept(a)

\* the objects of the reader the sweep went through
SweptSource(a) ==
    \/ a > 10 /\ AddedAs(a - 10) # 0
    \/ a <= 10 /\ log.copies[a] >= 1

\* what the code does: an object of the reader the sweep went through
\* holds references of the writer only, and no stream; the others are as
\* they were
SourceSwept ==
    ctl.phase = "written" =>
        \A a \in SourceAddrs :
            IF SweptSource(a) THEN
                /\ Len(heap[a]) = Len(HeapOf(log.edges)[a])
                /\ \A i \in 1..Len(heap[a]) :
                      /\ heap[a][i].k = "ref"
                      /\ heap[a][i].pdf = "w"
            ELSE heap[a] = HeapOf(log.edges)[a]

\* a written file whose page referred to an object of the reader, now
\* holding a reference of the writer in the reader's cache
SourceChanged ==
    /\ ctl.phase = "written"
    /\ \E a \in ReaderObjIds :
          /\ log.copies[a] = 1
          /\ heap[a] # <<>>
          /\ heap[a] # HeapOf(log.edges)[a]

====
